---- MODULE Spec2Model ----
(***************************************************************************)
(* A model of the recommendation pipeline of it-da-ai-server               *)
(* (app/services/AIRecommendationService.py).                              *)
(*                                                                         *)
(* Encoding of Python values.                                              *)
(*  - A dict is a function whose DOMAIN is the set of keys present.        *)
(*  - None is the string None below; "" is the empty string.               *)
(*  - Text is a TLA+ string.  The source's Korean literals are written in  *)
(*    ASCII, one Hangul syllable as one parenthesised group of its Revised *)
(*    Romanization: "(seu)(po)(cheu)" is the category written in Hangul    *)
(*    in the source (sports), "(ka)(pe)" is cafe.  A group is one          *)
(*    character: caseless, never whitespace.                               *)
(*  - Numbers that are only passed through (coordinates, radius, page,     *)
(*    ids, counts) are written as the text of the number.                  *)
(*  - confidence is in hundredths (0.9 is 90); a predicted rating is in    *)
(*    eighths (4.0 is 32), a grid on which the source's float arithmetic   *)
(*    is exact; a collaborative score is in hundredths (4.2 is 420).       *)
(***************************************************************************)
EXTENDS Integers, Sequences, FiniteSets, TLC

VARIABLES
    pc,                 \* per request: the step get_ai_recommendations is at
    user_prompt,        \* per request: argument user_prompt
    user_id,            \* per request: argument user_id
    top_n,              \* per request: argument top_n
    rid,                \* per request: the request's log tag, str(uuid.uuid4())[:8]
    parsed_query,       \* per request: the dict parse_search_query returned
    user_context,       \* per request: the dict _get_user_context returned
    enriched_query,     \* per request: the dict enrich_with_user_context returned
    aliased,            \* per request: enriched_query is the parsed_query object itself
    ladder,             \* per request: the queries q0..qk of _search_with_relaxation so far
    trace_steps,        \* per request: the list trace_steps
    candidate_meetings, \* per request: the list the ladder returned
    resp,               \* per request: how the last catalog search call ended
    sent,               \* per request: the payloads the catalog search received
    intent,             \* per request: the local intent
    scored_meetings,    \* per request: the list scored_meetings after the intent adjustment
    top_recommendations,\* per request: the list top_recommendations
    svd_recommendations,\* per request: the list svd.recommend returned
    svd_calls,          \* per request: the top_n of each call of svd.recommend
    batch_calls,        \* per request: the ids of each batch fetch
    result,             \* per request: the envelope returned, or NoResult
    heard,              \* per request: what the collaborators answered, in order (kept if U.record)
    loaded,             \* model_loader: which singletons are loaded
    given,              \* a helper called on its own: its name and arguments
    returned,           \* what that call returned, once it has
    db,                 \* the notifications table and its autoincrement counter
    utcnow              \* the clock datetime.utcnow() reads

vars == <<pc, user_prompt, user_id, top_n, rid, parsed_query, user_context,
          enriched_query, aliased, ladder, trace_steps, candidate_meetings,
          resp, sent, intent, scored_meetings, top_recommendations,
          svd_recommendations, svd_calls, batch_calls, result, heard, loaded, given, returned,
          db, utcnow>>

\* the notification store: the recommendation service never touches it
session == <<db, utcnow>>

-----------------------------------------------------------------------------
(* Python values *)

None == "None"

Get(d, k) == IF k \in DOMAIN d THEN d[k] ELSE None

GetDefault(d, k, default) == IF k \in DOMAIN d THEN d[k] ELSE default

\* d.pop(k, None) / dict(d) without k
Pop(d, k) == [x \in (DOMAIN d) \ {k} |-> d[x]]

\* {**a, **b}
Merge(a, b) == [k \in (DOMAIN a) \cup (DOMAIN b) |-> IF k \in DOMAIN b THEN b[k] ELSE a[k]]

\* truth value of a text or None
Truthy(v) == v \notin {None, ""}

\* a or b, of texts
Or(a, b) == IF Truthy(a) THEN a ELSE b

\* truth value of a number or None: 0 and 0.0 are false
TruthyNum(v) == v \notin {None, "0", "0.0"}

\* a or b, of numbers
OrNum(a, b) == IF TruthyNum(a) THEN a ELSE b

Min(a, b) == IF a <= b THEN a ELSE b

Max(a, b) == IF a >= b THEN a ELSE b

Range(s) == {s[i] : i \in DOMAIN s}

-----------------------------------------------------------------------------
(* Text: characters, strip, lower, upper, substring *)

\* the characters of a text: a parenthesised group (one Hangul syllable) or one ASCII character
RECURSIVE CharsFrom(_, _)
CharsFrom(s, i) ==
    IF i > Len(s) THEN <<>>
    ELSE IF SubSeq(s, i, i) = "("
         THEN LET j == CHOOSE n \in i..Len(s) :
                          /\ SubSeq(s, n, n) = ")"
                          /\ \A m \in i..(n - 1) : SubSeq(s, m, m) /= ")"
              IN  <<SubSeq(s, i, j)>> \o CharsFrom(s, j + 1)
         ELSE <<SubSeq(s, i, i)>> \o CharsFrom(s, i + 1)

Chars(s) == CharsFrom(s, 1)

RECURSIVE Join(_, _)
Join(cs, sep) ==
    IF cs = <<>> THEN ""
    ELSE IF Len(cs) = 1 THEN cs[1]
    ELSE cs[1] \o sep \o Join(Tail(cs), sep)

LowerLetters == <<"a","b","c","d","e","f","g","h","i","j","k","l","m",
                  "n","o","p","q","r","s","t","u","v","w","x","y","z">>

UpperLetters == <<"A","B","C","D","E","F","G","H","I","J","K","L","M",
                  "N","O","P","Q","R","S","T","U","V","W","X","Y","Z">>

UpperChar(c) ==
    IF \E i \in 1..26 : LowerLetters[i] = c
    THEN UpperLetters[CHOOSE i \in 1..26 : LowerLetters[i] = c]
    ELSE c

LowerChar(c) ==
    IF \E i \in 1..26 : UpperLetters[i] = c
    THEN LowerLetters[CHOOSE i \in 1..26 : UpperLetters[i] = c]
    ELSE c

\* str.upper()
Upper(s) == LET cs == Chars(s) IN Join([i \in 1..Len(cs) |-> UpperChar(cs[i])], "")

\* str.lower()
Lower(s) == LET cs == Chars(s) IN Join([i \in 1..Len(cs) |-> LowerChar(cs[i])], "")

\* str.strip()
Strip(s) ==
    LET cs == Chars(s)
        keep == {i \in 1..Len(cs) : cs[i] /= " "}
    IN  IF keep = {} THEN ""
        ELSE LET lo == CHOOSE i \in keep : \A j \in keep : i <= j
                 hi == CHOOSE i \in keep : \A j \in keep : i >= j
             IN  Join(SubSeq(cs, lo, hi), "")

\* w in t
Contains(t, w) ==
    LET ct == Chars(t)
        cw == Chars(w)
    IN  \E i \in 1..(Len(ct) - Len(cw) + 1) : SubSeq(ct, i, i + Len(cw) - 1) = cw

-----------------------------------------------------------------------------
(* Normalizers *)

TimeslotMapping ==
    [k \in {"morning", "afternoon", "evening", "night", "(o)(jeon)", "(a)(chim)",
            "(jeom)(sim)", "(o)(hu)", "(jeo)(nyeok)", "(bam)", "(ya)(gan)"} |->
        CASE k \in {"morning", "(o)(jeon)", "(a)(chim)"} -> "MORNING"
          [] k \in {"afternoon", "(jeom)(sim)", "(o)(hu)"} -> "AFTERNOON"
          [] k \in {"evening", "(jeo)(nyeok)"} -> "EVENING"
          [] k \in {"night", "(bam)", "(ya)(gan)"} -> "NIGHT"]

\* a variant that does not strip
_normalize_timeslot_unstripped(ts) ==
    IF ~Truthy(ts) THEN None
    ELSE IF Lower(ts) \in DOMAIN TimeslotMapping THEN TimeslotMapping[Lower(ts)] ELSE Upper(ts)

_normalize_timeslot(ts) ==
    IF ~Truthy(ts) THEN None
    ELSE LET raw == Strip(ts)
             lower == Lower(raw)
         IN  IF lower \in DOMAIN TimeslotMapping THEN TimeslotMapping[lower] ELSE Upper(raw)

LocationTypeMapping ==
    [k \in {"indoor", "outdoor", "(sil)(nae)", "(sil)(oe)", "(ya)(oe)"} |->
        CASE k \in {"indoor", "(sil)(nae)"} -> "INDOOR"
          [] k \in {"outdoor", "(sil)(oe)", "(ya)(oe)"} -> "OUTDOOR"]

_normalize_location_type(lt) ==
    IF ~Truthy(lt) THEN None
    ELSE LET raw == Strip(lt)
             lower == Lower(raw)
         IN  IF lower \in DOMAIN LocationTypeMapping THEN LocationTypeMapping[lower] ELSE Upper(raw)

-----------------------------------------------------------------------------
(* Intent *)

quiet_words == <<"(jo)(yong)", "(swi)", "(hil)(ling)", "(pyeon)(ha)(ge)", "(yeo)(yu)", "(ka)(pe)",
                 "(dae)(hwa)", "(san)(chaek)", "(jeon)(si)", "(dok)(seo)", "(swi)(go)">>

active_words == <<"(reo)(ning)", "(un)(dong)", "(ttwi)", "(bae)(deu)(min)(teon)", "(chuk)(gu)",
                  "(hel)(seu)", "(deung)(san)", "(keul)(la)(i)(ming)">>

\* a variant that looks for the active words first
_detect_intent_active_first(prompt, query) ==
    LET t == Lower(IF Truthy(prompt) THEN prompt ELSE "")
    IN  IF \E i \in DOMAIN active_words : Contains(t, active_words[i]) THEN "ACTIVE"
        ELSE IF \E i \in DOMAIN quiet_words : Contains(t, quiet_words[i]) THEN "QUIET"
        ELSE IF Get(query, "vibe") \in {"(hil)(ling)", "(yeo)(yu)(ro)(un)"} THEN "QUIET"
        ELSE "NEUTRAL"

\* a variant that reads only the parsed vibe
_detect_intent_vibe_only(prompt, query) ==
    IF Get(query, "vibe") \in {"(hil)(ling)", "(yeo)(yu)(ro)(un)"} THEN "QUIET" ELSE "NEUTRAL"

_detect_intent(prompt, query) ==
    LET t == Lower(IF Truthy(prompt) THEN prompt ELSE "")
    IN  IF \E i \in DOMAIN quiet_words : Contains(t, quiet_words[i]) THEN "QUIET"
        ELSE IF \E i \in DOMAIN active_words : Contains(t, active_words[i]) THEN "ACTIVE"
        ELSE IF Get(query, "vibe") \in {"(hil)(ling)", "(yeo)(yu)(ro)(un)"} THEN "QUIET"
        ELSE "NEUTRAL"

\* a variant whose ACTIVE branch penalizes everything the QUIET branch rewards
_apply_intent_adjustment_converse(it, meeting) ==
    LET cat == Or(Get(meeting, "category"), "")
        sub == Or(Get(meeting, "subcategory"), "")
        quiet == \/ cat \in {"(ka)(pe)", "(mun)(hwa)", "(chwi)(mi)"}
                 \/ sub \in {"(dok)(seo)", "(bo)(deu)(ge)(im)", "(jeon)(si)", "(seu)(teo)(di)"}
    IN  IF it = "QUIET" /\ cat = "(seu)(po)(cheu)" THEN -25
        ELSE IF it = "QUIET" /\ quiet THEN 15
        ELSE IF it = "ACTIVE" /\ cat = "(seu)(po)(cheu)" THEN 15
        ELSE IF it = "ACTIVE" /\ quiet THEN -10
        ELSE 0

_apply_intent_adjustment(it, meeting) ==
    LET cat == Or(Get(meeting, "category"), "")
        sub == Or(Get(meeting, "subcategory"), "")
    IN  IF it = "QUIET" /\ cat = "(seu)(po)(cheu)" THEN -25
        ELSE IF /\ it = "QUIET"
                /\ \/ cat \in {"(ka)(pe)", "(mun)(hwa)", "(chwi)(mi)"}
                   \/ sub \in {"(dok)(seo)", "(bo)(deu)(ge)(im)", "(jeon)(si)", "(seu)(teo)(di)"}
             THEN 15
        ELSE IF it = "ACTIVE" /\ cat = "(seu)(po)(cheu)" THEN 15
        ELSE IF it = "ACTIVE" /\ cat \in {"(ka)(pe)", "(mun)(hwa)"} THEN -10
        ELSE 0

\* a variant that does not clamp
AdjustedScore_unclamped(match_score, adjustment) == match_score + adjustment

\* int(max(0, min(100, match_score + adjustment)))
AdjustedScore(match_score, adjustment) == Max(0, Min(100, match_score + adjustment))

-----------------------------------------------------------------------------
(* Search payload builder *)

ConfidenceThreshold == 90

Confidence(q) == IF "confidence" \in DOMAIN q THEN q["confidence"] ELSE 0

_should_apply_time_slot(q) == Get(q, "time_slot") /= None /\ Confidence(q) >= ConfidenceThreshold

_should_apply_vibe(q) == Get(q, "vibe") /= None /\ Confidence(q) >= ConfidenceThreshold

\* q.get("keywords") or []
Keywords(q) == IF "keywords" \in DOMAIN q THEN q["keywords"] ELSE <<>>

_infer_location_type(q) ==
    LET text == Join(Keywords(q), " ")
    IN  IF Contains(text, "(sil)(nae)") THEN "INDOOR"
        ELSE IF Contains(text, "(ya)(oe)") \/ Contains(text, "(sil)(oe)") THEN "OUTDOOR"
        ELSE None

PayloadKeys == {"keyword", "category", "subcategory", "latitude", "longitude", "radius",
                "locationType", "vibe", "timeSlot", "page", "size", "sortBy", "sortDirection"}

\* the dict named payload in _to_spring_search_request, before the last line
RawPayload(q, user_ctx) ==
    LET keyword == IF Truthy(Get(q, "keyword")) THEN q["keyword"]
                   ELSE IF Keywords(q) /= <<>> THEN Join(Keywords(q), " ") ELSE None
        raw_location_type == Or(Get(q, "locationType"),
                                Or(Get(q, "location_type"), _infer_location_type(q)))
        raw_time_slot == Or(Get(q, "time_slot"), Get(q, "timeSlot"))
    IN  [k \in PayloadKeys |->
            CASE k = "keyword" -> keyword
              [] k = "category" -> Get(q, "category")
              [] k = "subcategory" -> Get(q, "subcategory")
              [] k = "latitude" -> OrNum(Get(user_ctx, "lat"), Get(user_ctx, "latitude"))
              [] k = "longitude" -> OrNum(Get(user_ctx, "lng"), Get(user_ctx, "longitude"))
              [] k = "radius" -> GetDefault(q, "radius", "5.0")
              [] k = "locationType" -> _normalize_location_type(raw_location_type)
              [] k = "vibe" -> Get(q, "vibe")
              [] k = "timeSlot" -> _normalize_timeslot(raw_time_slot)
              [] k = "page" -> "0"
              [] k = "size" -> "200"
              [] k = "sortBy" -> "createdAt"
              [] k = "sortDirection" -> "desc"]

\* a variant that keeps the fields whose value is true: it drops 0 as well
_to_spring_search_request_truthy(q, user_ctx) ==
    LET payload == RawPayload(q, user_ctx)
    IN  [k \in {x \in PayloadKeys : payload[x] \notin {None, "", "0"}} |-> payload[k]]

\* {k: v for k, v in payload.items() if v is not None and v != ""}
_to_spring_search_request(q, user_ctx) ==
    LET payload == RawPayload(q, user_ctx)
    IN  [k \in {x \in PayloadKeys : payload[x] /= None /\ payload[x] /= ""} |-> payload[k]]

-----------------------------------------------------------------------------
(* Candidate search: the relaxation ladder *)

LevelLabel(level) ==
    CASE level = 0 -> "L0 (won)(bon)"
      [] level = 1 -> "L1 vibe (je)(geo)"
      [] level = 2 -> "L2 timeSlot (je)(geo)"
      [] level = 3 -> "L3 subcategory (je)(geo)"
      [] level = 4 -> "L4 category (je)(geo)"

LastLevel == 4

\* q1 = dict(base_query); q1.pop("vibe", None)
Q1(base_query) == Pop(base_query, "vibe")

\* a variant that forgets the camelCase key
Q2_snake_only(q1) == Pop(q1, "time_slot")

\* q2 = dict(q1); q2.pop("time_slot", None); q2.pop("timeSlot", None)
Q2(q1) == Pop(Pop(q1, "time_slot"), "timeSlot")

\* q3 = dict(q2); q3.pop("subcategory", None)
Q3(q2) == Pop(q2, "subcategory")

\* a variant that builds q4 from q2
Q4_from_q2(qs) == Pop(qs[3], "category")

\* q4 = dict(q3); q4.pop("category", None); qs holds q0, q1, q2, q3
Q4(qs) == Pop(qs[4], "category")

\* a variant in which every level pops its own keys from the base query
RelaxedQuery_from_base(base_query, qs) ==
    CASE Len(qs) = 0 -> base_query
      [] Len(qs) = 1 -> Q1(base_query)
      [] Len(qs) = 2 -> Q2(base_query)
      [] Len(qs) = 3 -> Q3(base_query)
      [] Len(qs) = 4 -> Pop(base_query, "category")

\* the query of the next attempt, given the base query and the queries tried so far
RelaxedQuery(base_query, qs) ==
    CASE Len(qs) = 0 -> base_query
      [] Len(qs) = 1 -> Q1(base_query)
      [] Len(qs) = 2 -> Q2(qs[2])
      [] Len(qs) = 3 -> Q3(qs[3])
      [] Len(qs) = 4 -> Q4(qs)

\* a variant that reads the meetings of any answer that is not a transport failure
SearchResult_ignores_status(response) ==
    IF response.kind = "exception" THEN <<>>
    ELSE IF response.kind = "ok" THEN response.meetings ELSE <<[error |-> "body"]>>

\* what _search_meetings returns for a response of the catalog
SearchResult(response) ==
    IF response.kind = "ok" THEN response.meetings ELSE <<>>

\* a variant whose level is the length of one trace list shared by all requests
TraceStep_shared_list(level, q, user_ctx, meetings) ==
    [level |-> Len(trace_steps[1]) + Len(trace_steps[2]), label |-> LevelLabel(level),
     payload |-> _to_spring_search_request(q, user_ctx), count |-> Len(meetings)]

\* a variant that numbers the levels from 1
TraceStep_one_based(level, q, user_ctx, meetings) ==
    [level |-> level + 1, label |-> LevelLabel(level),
     payload |-> _to_spring_search_request(q, user_ctx), count |-> Len(meetings)]

\* the step _try appends
TraceStep(level, q, user_ctx, meetings) ==
    [level |-> level, label |-> LevelLabel(level),
     payload |-> _to_spring_search_request(q, user_ctx), count |-> Len(meetings)]

\* a variant that goes on whatever the attempt returned
LadderContinues_after_hit(level, meetings) == level < LastLevel

\* a variant whose ladder ends one level early
LadderContinues_stops_early(level, meetings) == meetings = <<>> /\ level < LastLevel - 1

\* whether the ladder goes on after an attempt at this level returned meetings
LadderContinues(level, meetings) == meetings = <<>> /\ level < LastLevel

\* a variant that falls back when fewer than two candidates were found
UseFallback_below_two(meetings) == Len(meetings) < 2

\* line 284: if not candidate_meetings
UseFallback(meetings) == meetings = <<>>

\* a variant that reports the number of steps as the final level
SearchTrace_counts_steps(steps, fallback) ==
    [steps |-> steps,
     final_level |-> Len(steps),
     final_label |-> IF steps /= <<>> THEN steps[Len(steps)].label ELSE LevelLabel(0),
     fallback |-> fallback]

SearchTrace(steps, fallback) ==
    [steps |-> steps,
     final_level |-> IF steps /= <<>> THEN steps[Len(steps)].level ELSE 0,
     final_label |-> IF steps /= <<>> THEN steps[Len(steps)].label ELSE LevelLabel(0),
     fallback |-> fallback]

-----------------------------------------------------------------------------
(* Scoring *)

\* round(n / d) of Python 3, d > 0: to the nearest integer, a tie to the even one
RoundHalfEven(n, d) ==
    LET q == n \div d
        r == n % d
    IN  IF 2 * r > d \/ (2 * r = d /\ q % 2 = 1) THEN q + 1 ELSE q

\* int(x) of a quotient n / d, d > 0: towards zero
Truncate(n, d) == IF n >= 0 THEN n \div d ELSE -((-n) \div d)

\* a variant that truncates where the code rounds
BaseMatchScore_truncated(p) == Max(0, Min(100, Truncate(25 * (p - 8), 8)))

\* int(max(0, min(100, round((predicted_rating - 1) / 4 * 100)))), rating in eighths
BaseMatchScore(p) == Max(0, Min(100, RoundHalfEven(25 * (p - 8), 8)))

_normalize_meeting(m) ==
    [meeting_id |-> OrNum(Get(m, "meeting_id"), Get(m, "meetingId")),
     lat |-> OrNum(Get(m, "latitude"), Get(m, "lat")),
     lng |-> OrNum(Get(m, "longitude"), Get(m, "lng")),
     category |-> Or(GetDefault(m, "category", ""), ""),
     subcategory |-> Or(GetDefault(m, "subcategory", ""), ""),
     time_slot |-> _normalize_timeslot(Or(Get(m, "time_slot"), Get(m, "timeSlot"))),
     meeting_location_type |->
         _normalize_location_type(Or(Get(m, "location_type"), Get(m, "locationType"))),
     vibe |-> Or(GetDefault(m, "vibe", ""), ""),
     meeting_participant_count |->
         OrNum(OrNum(Get(m, "current_participants"), Get(m, "currentParticipants")), "0"),
     expected_cost |-> OrNum(OrNum(Get(m, "expected_cost"), Get(m, "expectedCost")), "0"),
     meeting_avg_rating |-> OrNum(OrNum(Get(m, "avg_rating"), Get(m, "avgRating")), "0.0"),
     meeting_rating_count |-> OrNum(OrNum(Get(m, "rating_count"), Get(m, "ratingCount")), "0"),
     distance_km |-> OrNum(Get(m, "distance_km"), Get(m, "distanceKm")),
     title |-> Get(m, "title"),
     image_url |-> Or(Get(m, "image_url"), Get(m, "imageUrl")),
     location_name |-> Or(Get(m, "location_name"), Get(m, "locationName")),
     location_address |-> Or(Get(m, "location_address"), Get(m, "locationAddress")),
     meeting_time |-> Or(Get(m, "meeting_time"), Get(m, "meetingTime")),
     current_participants |-> OrNum(Get(m, "current_participants"), Get(m, "currentParticipants")),
     \* the dict literal names max_participants twice: the second value stands
     max_participants |-> OrNum(Get(m, "max_participants"), Get(m, "maxParticipants"))]

\* a variant that keeps the last three points instead of the first three
_build_key_points_keep_last(feat) ==
    LET p1 == IF GetDefault(feat, "distance_km", 9990) <= 30
              THEN <<[point |-> "near", distance_km |-> feat["distance_km"]]>> ELSE <<>>
        p2 == IF "time_match" \in DOMAIN feat /\ feat["time_match"] = 100
              THEN <<[point |-> "time"]>> ELSE <<>>
        p3 == IF "location_type_match" \in DOMAIN feat /\ feat["location_type_match"] = 100
              THEN <<[point |-> "location"]>> ELSE <<>>
        p4 == IF GetDefault(feat, "cost_match_score", 0) >= 70
              THEN <<[point |-> "cost"]>> ELSE <<>>
        p5 == IF GetDefault(feat, "interest_match_score", 0) >= 50
              THEN <<[point |-> "interest"]>> ELSE <<>>
        points == p1 \o p2 \o p3 \o p4 \o p5
    IN  SubSeq(points, Max(1, Len(points) - 2), Len(points))

\* feat: distance_km in tenths of a km, the match scores in hundredths; a key may be absent
_build_key_points_from_feat(feat) ==
    LET p1 == IF GetDefault(feat, "distance_km", 9990) <= 30
              THEN <<[point |-> "near", distance_km |-> feat["distance_km"]]>> ELSE <<>>
        p2 == IF "time_match" \in DOMAIN feat /\ feat["time_match"] = 100
              THEN <<[point |-> "time"]>> ELSE <<>>
        p3 == IF "location_type_match" \in DOMAIN feat /\ feat["location_type_match"] = 100
              THEN <<[point |-> "location"]>> ELSE <<>>
        p4 == IF GetDefault(feat, "cost_match_score", 0) >= 70
              THEN <<[point |-> "cost"]>> ELSE <<>>
        p5 == IF GetDefault(feat, "interest_match_score", 0) >= 50
              THEN <<[point |-> "interest"]>> ELSE <<>>
        points == p1 \o p2 \o p3 \o p4 \o p5
    IN  SubSeq(points, 1, Min(3, Len(points)))

\* the indices, in order, of the candidates whose feature build did not raise
RECURSIVE ValidFrom(_, _)
ValidFrom(outcomes, i) ==
    IF i > Len(outcomes) THEN <<>>
    ELSE (IF outcomes[i].ok THEN <<i>> ELSE <<>>) \o ValidFrom(outcomes, i + 1)

Valid(outcomes) == ValidFrom(outcomes, 1)

\* one entry of results: {**m, predicted_rating, match_score, key_points}
ScoredMeeting(raw, feat, p) ==
    [m |-> _normalize_meeting(raw), predicted_rating |-> p,
     match_score |-> BaseMatchScore(p), key_points |-> _build_key_points_from_feat(feat)]

\* a variant that pairs the j-th row with the j-th candidate of the input list
_score_meetings_by_position(candidates, outcomes, preds) ==
    LET valid == Valid(outcomes)
    IN  [j \in 1..Min(Len(valid), Len(preds)) |->
            ScoredMeeting(candidates[j], outcomes[valid[j]].feat, preds[j])]

\* the calls of regressor.predict: none when no row was built (if not rows: return [])
PredictCalls(outcomes, answer) ==
    IF Valid(outcomes) = <<>> THEN <<>>
    ELSE <<[rows |-> Len(Valid(outcomes)), answer |-> answer]>>

\* _score_meetings once the models are known to be loaded: outcomes[i] is what
\* feature_builder.build did for candidate i, preds what regressor.predict returned
_score_meetings(candidates, outcomes, preds) ==
    LET valid == Valid(outcomes)
    IN  [j \in 1..Min(Len(valid), Len(preds)) |->
            ScoredMeeting(candidates[valid[j]], outcomes[valid[j]].feat, preds[j])]

\* the category and subcategory _apply_intent_adjustment reads in an entry
Meeting(rec) == rec.m

\* a variant that labels each candidate by the adjustment it got
Adjusted_own_intent(rec, it) ==
    [k \in (DOMAIN rec) \cup {"intent"} |->
        CASE k = "match_score" ->
                 AdjustedScore(rec.match_score, _apply_intent_adjustment(it, Meeting(rec)))
          [] k = "intent" -> IF _apply_intent_adjustment(it, Meeting(rec)) = 0
                             THEN "NEUTRAL" ELSE it
          [] OTHER -> rec[k]]

\* a variant that adds the adjustment twice
Adjusted_twice(rec, it) ==
    [k \in (DOMAIN rec) \cup {"intent"} |->
        CASE k = "match_score" ->
                 AdjustedScore(AdjustedScore(rec.match_score,
                                             _apply_intent_adjustment(it, Meeting(rec))),
                               _apply_intent_adjustment(it, Meeting(rec)))
          [] k = "intent" -> it
          [] OTHER -> rec[k]]

\* m["match_score"] = int(max(0, min(100, ...))); m["intent"] = intent
Adjusted(rec, it) ==
    [k \in (DOMAIN rec) \cup {"intent"} |->
        CASE k = "match_score" ->
                 AdjustedScore(rec.match_score, _apply_intent_adjustment(it, Meeting(rec)))
          [] k = "intent" -> it
          [] OTHER -> rec[k]]

AdjustAll(recs, it) == [i \in 1..Len(recs) |-> Adjusted(recs[i], it)]

\* a variant of the sort that puts a record before the earlier records of equal score
RECURSIVE SortedDesc_ties_reversed(_)
SortedDesc_ties_reversed(recs) ==
    IF recs = <<>> THEN <<>>
    ELSE LET rest == SortedDesc_ties_reversed(SubSeq(recs, 1, Len(recs) - 1))
             x == recs[Len(recs)]
             k == Cardinality({i \in 1..Len(rest) : rest[i].match_score > x.match_score})
         IN  SubSeq(rest, 1, k) \o <<x>> \o SubSeq(rest, k + 1, Len(rest))

\* sorted(recs, key=match_score, reverse=True): stable
RECURSIVE SortedDesc(_)
SortedDesc(recs) ==
    IF recs = <<>> THEN <<>>
    ELSE LET rest == SortedDesc(SubSeq(recs, 1, Len(recs) - 1))
             x == recs[Len(recs)]
             k == Cardinality({i \in 1..Len(rest) : rest[i].match_score >= x.match_score})
         IN  SubSeq(rest, 1, k) \o <<x>> \o SubSeq(rest, k + 1, Len(rest))

\* a variant of the slice that keeps one record more
Take_one_more(recs, n) == SubSeq(recs, 1, Min(n + 1, Len(recs)))

\* recs[:n], n >= 0
Take(recs, n) == SubSeq(recs, 1, Min(n, Len(recs)))

TopRecommendations(recs, n) == Take(SortedDesc(recs), n)

-----------------------------------------------------------------------------
(* Fallback recommender *)

DefaultSvdScore == 350

\* a variant that gives every record the default score
SvdScoreOf_default_only(svd_recs, meeting) == DefaultSvdScore

\* next((score for mid, score in svd_recommendations if mid == meeting.get("meeting_id")), 3.5)
SvdScoreOf(svd_recs, meeting) ==
    LET hits == {i \in 1..Len(svd_recs) : svd_recs[i].mid = Get(meeting, "meeting_id")}
    IN  IF hits = {} THEN DefaultSvdScore
        ELSE svd_recs[CHOOSE i \in hits : \A j \in hits : i <= j].score

\* min(100, int(svd_score * 20)), score in hundredths
FallbackMatchScore(svd_score) == Min(100, Truncate(svd_score, 5))

\* one entry of scored: {**meeting, match_score, svd_score, key_points, reasoning}
FallbackScored(meeting, svd_recs) ==
    LET svd_score == SvdScoreOf(svd_recs, meeting)
    IN  [m |-> meeting, match_score |-> FallbackMatchScore(svd_score), svd_score |-> svd_score,
         key_points |-> <<[point |-> "svd"]>>, reasoning |-> [source |-> "fixed"]]

\* a variant that asks the catalog for the first id only
MeetingIds_first_only(svd_recs) ==
    [i \in 1..Min(1, Len(svd_recs)) |-> svd_recs[i].mid]

\* meeting_ids = [int(mid) for mid, _ in svd_recommendations]
MeetingIds(svd_recs) == [i \in 1..Len(svd_recs) |-> svd_recs[i].mid]

\* what _get_meetings_by_ids returns for a response of the catalog
BatchResult(response) ==
    IF response.kind = "ok" THEN response.meetings ELSE <<>>

\* the dict _fallback_svd_recommendation returns
FallbackData(prompt, query, meetings, svd_recs, n) ==
    LET scored == [i \in 1..Len(meetings) |-> FallbackScored(meetings[i], svd_recs)]
    IN  [user_prompt |-> prompt, parsed_query |-> query, total_candidates |-> Len(scored),
         recommendations |-> Take(scored, n), fallback |-> TRUE]

\* lines 289-301 of get_ai_recommendations: intent adjustment of data, search_trace
FallbackEnvelope(data, it, steps) ==
    [k \in (DOMAIN data) \cup {"search_trace"} |->
        CASE k = "recommendations" -> AdjustAll(data.recommendations, it)
          [] k = "search_trace" -> SearchTrace(steps, TRUE)
          [] OTHER -> data[k]]

-----------------------------------------------------------------------------
(* Rationale *)

TemplateCategories == {"(ka)(pe)", "(seu)(po)(cheu)", "(mat)(jip)", "(mun)(hwa)(ye)(sul)", "(so)(syeol)"}

\* a variant that lists two templates for every category
TemplateOptions_always_two(meeting) == 2

\* the number of entries in options
TemplateOptions(meeting) ==
    IF Or(Get(meeting, "category"), "") \in TemplateCategories THEN 2 ELSE 1

\* the text random.choice(options) picks when it picks entry number choice
_fallback_reasoning(meeting, choice) ==
    [source |-> "template",
     category |-> IF Or(Get(meeting, "category"), "") \in TemplateCategories
                  THEN meeting["category"] ELSE "default",
     option |-> choice,
     location |-> Or(Get(meeting, "location_name"), "(mi)(jeong)"),
     distance |-> IF Get(meeting, "distance_km") /= None THEN meeting["distance_km"] ELSE "0",
     cost |-> IF Get(meeting, "expected_cost") /= None THEN meeting["expected_cost"] ELSE "0",
     participants |-> IF Get(meeting, "current_participants") /= None
                      THEN meeting["current_participants"] ELSE "0",
     subcategory |-> Or(Get(meeting, "subcategory"), "")]

\* the reasonings _generate_reasoning can return for a meeting: the text the
\* language model gave, or after a failure a template text
Reasonings(meeting, gpt) ==
    {[source |-> "gpt", text |-> g] : g \in gpt.texts}
    \cup (IF gpt.fails
          THEN {_fallback_reasoning(meeting, c) : c \in 1..TemplateOptions(meeting)}
          ELSE {})

WithReasoning(rec, reasoning) ==
    [k \in (DOMAIN rec) \cup {"reasoning"} |-> IF k = "reasoning" THEN reasoning ELSE rec[k]]

\* the dict get_ai_recommendations returns on the scored path
\* a variant whose total_candidates counts the records returned
ScoredEnvelope_counts_returned(prompt, query, candidates, recs, steps) ==
    [user_prompt |-> prompt, parsed_query |-> query, total_candidates |-> Len(recs),
     recommendations |-> recs, search_trace |-> SearchTrace(steps, FALSE)]

ScoredEnvelope(prompt, query, candidates, recs, steps) ==
    [user_prompt |-> prompt, parsed_query |-> query, total_candidates |-> Len(candidates),
     recommendations |-> recs, search_trace |-> SearchTrace(steps, FALSE)]

-----------------------------------------------------------------------------
(* User context *)

\* a variant of the default context that carries no coordinates
DefaultContext_no_coordinates(uid) ==
    [user_id |-> uid, interests |-> "", time_preference |-> "", budget_type |-> "VALUE",
     user_avg_rating |-> "0.0", user_meeting_count |-> "0", user_rating_std |-> "0.0"]

\* the dict _get_user_context returns when the lookup fails
DefaultContext(uid) ==
    [user_id |-> uid, latitude |-> "37.5665", longitude |-> "126.9780", interests |-> "",
     time_preference |-> "", budget_type |-> "VALUE", user_avg_rating |-> "0.0",
     user_meeting_count |-> "0", user_rating_std |-> "0.0"]

-----------------------------------------------------------------------------
(* The requests.  An action takes the request r and the universe U that its  *)
(* inputs (arguments, collaborators' answers) are drawn from.                *)

Req == {1, 2}

NoResult == [returned |-> FALSE]

Returned(r) == pc[r] = "done"

\* no helper is being called on its own
NoCall == [fn |-> "None", args |-> <<>>]

\* the table notifications with no row in it
EmptyTable == [notifications |-> <<>>, autoincrement |-> 0]

Pending == [done |-> FALSE]

InitOf(U) ==
    /\ given = NoCall
    /\ returned = Pending
    /\ db = EmptyTable
    /\ utcnow = 0
    /\ pc = [r \in Req |-> "idle"]
    /\ user_prompt = [r \in Req |-> ""]
    /\ user_id = [r \in Req |-> 0]
    /\ top_n = [r \in Req |-> 0]
    /\ rid = [r \in Req |-> ""]
    /\ parsed_query = [r \in Req |-> <<>>]
    /\ user_context = [r \in Req |-> <<>>]
    /\ enriched_query = [r \in Req |-> <<>>]
    /\ aliased = [r \in Req |-> FALSE]
    /\ ladder = [r \in Req |-> <<>>]
    /\ trace_steps = [r \in Req |-> <<>>]
    /\ candidate_meetings = [r \in Req |-> <<>>]
    /\ resp = [r \in Req |-> None]
    /\ sent = [r \in Req |-> <<>>]
    /\ intent = [r \in Req |-> None]
    /\ scored_meetings = [r \in Req |-> <<>>]
    /\ top_recommendations = [r \in Req |-> <<>>]
    /\ svd_recommendations = [r \in Req |-> <<>>]
    /\ svd_calls = [r \in Req |-> <<>>]
    /\ batch_calls = [r \in Req |-> <<>>]
    /\ result = [r \in Req |-> NoResult]
    /\ heard = [r \in Req |-> <<>>]
    /\ loaded \in U.loaded

\* get_ai_recommendations(user_prompt, user_id, top_n) is called: lines 257-263
Call(r, U) ==
    /\ pc[r] = "idle"
    /\ \E p \in U.prompts, u \in U.user_ids, n \in U.top_ns, tag \in U.rids :
          /\ user_prompt' = [user_prompt EXCEPT ![r] = p]
          /\ user_id' = [user_id EXCEPT ![r] = u]
          /\ top_n' = [top_n EXCEPT ![r] = n]
          /\ rid' = [rid EXCEPT ![r] = tag]
    /\ pc' = [pc EXCEPT ![r] = "parse"]
    /\ UNCHANGED <<parsed_query, user_context, enriched_query, aliased, ladder, trace_steps,
                   candidate_meetings, resp, sent, intent, scored_meetings,
                   top_recommendations, svd_recommendations, svd_calls, batch_calls,
                   result, heard, loaded, given, returned, session>>

\* a variant of the readiness check that does not look at the feature-builder
ScorerReady_regressor_only(l) == l.regressor

\* lines 353-356 of _score_meetings: the regressor and the feature-builder are loaded
ScorerReady(l) == l.regressor /\ l.feature_builder

\* line 549 of _fallback_svd_recommendation: the collaborative model is loaded
FallbackReady(l) == l.svd

\* an exception reaches the except clause of get_ai_recommendations: logged, re-raised
Hear(r, U, entry) ==
    heard' = IF U.record THEN [heard EXCEPT ![r] = Append(@, entry)] ELSE heard

\* a variant that answers with what the request has so far instead of raising
Raise_partial(r, U, from) ==
    /\ pc' = [pc EXCEPT ![r] = "done"]
    /\ Hear(r, U, [from |-> from, raised |-> TRUE])
    /\ result' = [result EXCEPT ![r] =
                     [user_prompt |-> user_prompt[r], parsed_query |-> parsed_query[r],
                      total_candidates |-> Len(candidate_meetings[r]),
                      recommendations |-> <<>>, steps |-> trace_steps[r]]]
    /\ UNCHANGED <<user_prompt, user_id, top_n, rid, parsed_query, user_context,
                   enriched_query, aliased, ladder, trace_steps, candidate_meetings, resp,
                   sent, intent, scored_meetings, top_recommendations, svd_recommendations,
                   svd_calls, batch_calls, loaded, given, returned, session>>

Raise(r, U, from) ==
    /\ pc' = [pc EXCEPT ![r] = "raised"]
    /\ Hear(r, U, [from |-> from, raised |-> TRUE])
    /\ UNCHANGED <<user_prompt, user_id, top_n, rid, parsed_query, user_context,
                   enriched_query, aliased, ladder, trace_steps, candidate_meetings, resp,
                   sent, intent, scored_meetings, top_recommendations, svd_recommendations,
                   svd_calls, batch_calls, result, loaded, given, returned, session>>

\* Step 1: parsed_query = await self.gpt_service.parse_search_query(user_prompt)
ParseQuery(r, U) ==
    /\ pc[r] = "parse"
    /\ \/ /\ \E q \in U.queries :
                /\ parsed_query' = [parsed_query EXCEPT ![r] = q]
                /\ Hear(r, U, [from |-> "parse_search_query", answer |-> q])
          /\ pc' = [pc EXCEPT ![r] = "context"]
          /\ UNCHANGED <<user_prompt, user_id, top_n, rid, user_context, enriched_query,
                         aliased, ladder, trace_steps, candidate_meetings, resp, sent, intent,
                         scored_meetings, top_recommendations, svd_recommendations,
                         svd_calls, batch_calls, result, loaded, given, returned, session>>
       \/ Raise(r, U, "parse_search_query")

\* Step 2: user_context = await self._get_user_context(user_id)
GetUserContext(r, U) ==
    /\ pc[r] = "context"
    /\ \/ \E ctx \in U.contexts :
             /\ user_context' = [user_context EXCEPT ![r] = ctx]
             /\ Hear(r, U, [from |-> "context", answer |-> ctx])
       \/ /\ user_context' = [user_context EXCEPT ![r] = DefaultContext(user_id[r])]
          /\ Hear(r, U, [from |-> "context", raised |-> TRUE])
    /\ pc' = [pc EXCEPT ![r] = "enrich"]
    /\ UNCHANGED <<user_prompt, user_id, top_n, rid, parsed_query, enriched_query, aliased,
                   ladder, trace_steps, candidate_meetings, resp, sent, intent,
                   scored_meetings, top_recommendations, svd_recommendations, svd_calls,
                   batch_calls, result, loaded, given, returned, session>>

\* what enrich_with_user_context returns: the parsed query plus defaults
Enriched(query, defaults) == Merge(defaults, query)

\* lines 274-278: drop the time-of-day and the vibe that are not to act as filters
Filtered(q) ==
    LET q_t == IF ~_should_apply_time_slot(q) THEN Pop(Pop(q, "time_slot"), "timeSlot") ELSE q
    IN  IF ~_should_apply_vibe(q_t) THEN Pop(q_t, "vibe") ELSE q_t

\* Step 3: enriched_query = await self.gpt_service.enrich_with_user_context(...), then
\* lines 274-281.  The enricher returns a fresh dict or the parsed_query object itself.
Enrich(r, U) ==
    /\ pc[r] = "enrich"
    /\ \/ /\ \E same \in U.alias, d \in U.defaults :
                LET q == Filtered(Enriched(parsed_query[r], d))
                IN  /\ enriched_query' = [enriched_query EXCEPT ![r] = q]
                    /\ aliased' = [aliased EXCEPT ![r] = same]
                    /\ parsed_query' = [parsed_query EXCEPT ![r] = IF same THEN q ELSE @]
                    /\ Hear(r, U, [from |-> "enrich_with_user_context",
                                   answer |-> Enriched(parsed_query[r], d), same |-> same])
          /\ trace_steps' = [trace_steps EXCEPT ![r] = <<>>]
          /\ pc' = [pc EXCEPT ![r] = "search_send"]
          /\ UNCHANGED <<user_prompt, user_id, top_n, rid, user_context, ladder,
                         candidate_meetings, resp, sent, intent, scored_meetings,
                         top_recommendations, svd_recommendations, svd_calls, batch_calls,
                         result, loaded, given, returned, session>>
       \/ Raise(r, U, "enrich_with_user_context")

\* _try, first half: the next query of the ladder, _search_meetings posts its payload
SearchSend(r) ==
    /\ pc[r] = "search_send"
    /\ LET q == RelaxedQuery(enriched_query[r], ladder[r])
       IN  /\ ladder' = [ladder EXCEPT ![r] = Append(@, q)]
           /\ sent' = [sent EXCEPT ![r] = Append(@, _to_spring_search_request(q, user_context[r]))]
    /\ pc' = [pc EXCEPT ![r] = "search_recv"]
    /\ UNCHANGED <<user_prompt, user_id, top_n, rid, parsed_query, user_context,
                   enriched_query, aliased, trace_steps, candidate_meetings, resp, intent,
                   scored_meetings, top_recommendations, svd_recommendations, svd_calls,
                   batch_calls, result, heard, loaded, given, returned, session>>

\* _try, second half: the catalog answers (or the call fails), the step is appended,
\* and _search_with_relaxation returns or goes on to the next level
SearchRecv(r, U) ==
    /\ pc[r] = "search_recv"
    /\ \E response \in U.responses[Len(trace_steps[r])] :
          LET level == Len(trace_steps[r])
              q == ladder[r][Len(ladder[r])]
              meetings == SearchResult(response)
          IN  /\ resp' = [resp EXCEPT ![r] = response.kind]
              /\ Hear(r, U, [from |-> "search", answer |-> response])
              /\ trace_steps' = [trace_steps EXCEPT ![r] =
                                    Append(@, TraceStep(level, q, user_context[r], meetings))]
              /\ candidate_meetings' = [candidate_meetings EXCEPT ![r] = meetings]
              /\ pc' = [pc EXCEPT ![r] =
                          IF LadderContinues(level, meetings) THEN "search_send"
                          ELSE IF UseFallback(meetings) THEN "fallback" ELSE "score"]
    /\ UNCHANGED <<user_prompt, user_id, top_n, rid, parsed_query, user_context,
                   enriched_query, aliased, ladder, sent, intent, scored_meetings,
                   top_recommendations, svd_recommendations, svd_calls, batch_calls,
                   result, loaded, given, returned, session>>


\* Step 5 and Step 6, lines 303-319: intent, _score_meetings, intent adjustment, sort, top_n
Score(r, U) ==
    /\ pc[r] = "score"
    /\ \/ /\ ~ScorerReady(loaded)
          /\ Raise(r, U, "model_loader")
       \/ /\ ScorerReady(loaded)
          /\ \E outcomes \in [1..Len(candidate_meetings[r]) -> U.outcomes] :
             \E preds \in [1..Len(Valid(outcomes)) -> U.ratings] :
                LET it == _detect_intent(user_prompt[r], parsed_query[r])
                    scored == AdjustAll(_score_meetings(candidate_meetings[r], outcomes, preds), it)
                IN  /\ intent' = [intent EXCEPT ![r] = it]
                    /\ Hear(r, U, [from |-> "models", features |-> outcomes,
                                   predict |-> PredictCalls(outcomes, preds)])
                    /\ scored_meetings' = [scored_meetings EXCEPT ![r] = scored]
                    /\ top_recommendations' =
                           [top_recommendations EXCEPT ![r] = TopRecommendations(scored, top_n[r])]
          /\ pc' = [pc EXCEPT ![r] = "reason"]
          /\ UNCHANGED <<user_prompt, user_id, top_n, rid, parsed_query, user_context,
                         enriched_query, aliased, ladder, trace_steps, candidate_meetings,
                         resp, sent, svd_recommendations, svd_calls, batch_calls, result,
                         loaded, given, returned, session>>
       \/ \* regressor.predict is called and raises
          /\ ScorerReady(loaded)
          /\ \E outcomes \in [1..Len(candidate_meetings[r]) -> U.outcomes] :
                /\ Valid(outcomes) /= <<>>
                /\ Hear(r, U, [from |-> "models", features |-> outcomes, raised |-> TRUE])
          /\ pc' = [pc EXCEPT ![r] = "raised"]
          /\ UNCHANGED <<user_prompt, user_id, top_n, rid, parsed_query, user_context,
                         enriched_query, aliased, ladder, trace_steps, candidate_meetings,
                         resp, sent, intent, scored_meetings, top_recommendations,
                         svd_recommendations, svd_calls, batch_calls, result, loaded, given, returned, session>>

\* Step 7, lines 322-336: a reasoning for each recommendation, the envelope is returned
Reason(r, U) ==
    /\ pc[r] = "reason"
    /\ LET recs == top_recommendations[r]
           all == UNION {Reasonings(Meeting(recs[i]), U.gpt) : i \in 1..Len(recs)}
       IN  \E reasoning \in [1..Len(recs) -> all] :
              /\ \A i \in 1..Len(recs) : reasoning[i] \in Reasonings(Meeting(recs[i]), U.gpt)
              /\ LET done == [i \in 1..Len(recs) |-> WithReasoning(recs[i], reasoning[i])]
                 IN  /\ top_recommendations' = [top_recommendations EXCEPT ![r] = done]
                     /\ result' = [result EXCEPT ![r] =
                                      ScoredEnvelope(user_prompt[r], parsed_query[r],
                                                     candidate_meetings[r], done, trace_steps[r])]
    /\ pc' = [pc EXCEPT ![r] = "done"]
    /\ UNCHANGED <<user_prompt, user_id, top_n, rid, parsed_query, user_context,
                   enriched_query, aliased, ladder, trace_steps, candidate_meetings, resp,
                   sent, intent, scored_meetings, svd_recommendations, svd_calls, batch_calls,
                   heard, loaded, given, returned, session>>

\* _fallback_svd_recommendation, lines 549-552: svd.recommend(user_id, top_n * 2)
FallbackRecommend(r, U) ==
    /\ pc[r] = "fallback"
    /\ \/ /\ ~FallbackReady(loaded)
          /\ Raise(r, U, "model_loader")
       \/ /\ FallbackReady(loaded)
          /\ svd_calls' = [svd_calls EXCEPT ![r] =
                              Append(@, [user_id |-> user_id[r], top_n |-> top_n[r] * 2])]
          /\ \/ /\ \E recs \in U.svd_lists :
                      /\ svd_recommendations' = [svd_recommendations EXCEPT ![r] = recs]
                      /\ Hear(r, U, [from |-> "recommend", answer |-> recs])
                /\ pc' = [pc EXCEPT ![r] = "batch"]
             \/ \* svd.recommend raises
                /\ pc' = [pc EXCEPT ![r] = "raised"]
                /\ Hear(r, U, [from |-> "recommend", raised |-> TRUE])
                /\ UNCHANGED svd_recommendations
          /\ UNCHANGED <<user_prompt, user_id, top_n, rid, parsed_query, user_context,
                         enriched_query, aliased, ladder, trace_steps, candidate_meetings,
                         resp, sent, intent, scored_meetings, top_recommendations,
                         batch_calls, result, loaded, given, returned, session>>

\* lines 553-574 and 289-301: the batch fetch, the fallback scores, the intent
\* adjustment, the envelope is returned
FallbackBatch(r, U) ==
    /\ pc[r] = "batch"
    /\ batch_calls' = [batch_calls EXCEPT ![r] = Append(@, MeetingIds(svd_recommendations[r]))]
    /\ \E response \in U.batch_responses :
          LET data == FallbackData(user_prompt[r], parsed_query[r], BatchResult(response),
                                   svd_recommendations[r], top_n[r])
              it == _detect_intent(user_prompt[r], parsed_query[r])
          IN  /\ intent' = [intent EXCEPT ![r] = it]
              /\ Hear(r, U, [from |-> "batch", answer |-> response])
              /\ result' = [result EXCEPT ![r] = FallbackEnvelope(data, it, trace_steps[r])]
    /\ pc' = [pc EXCEPT ![r] = "done"]
    /\ UNCHANGED <<user_prompt, user_id, top_n, rid, parsed_query, user_context,
                   enriched_query, aliased, ladder, trace_steps, candidate_meetings, resp,
                   sent, scored_meetings, top_recommendations, svd_recommendations, svd_calls,
                   loaded, given, returned, session>>

\* the steps the requests of R can take, with inputs from U
NextOf(R, U) ==
    \E r \in R :
        \/ Call(r, U)
        \/ ParseQuery(r, U)
        \/ GetUserContext(r, U)
        \/ Enrich(r, U)
        \/ SearchSend(r)
        \/ SearchRecv(r, U)
        \/ Score(r, U)
        \/ Reason(r, U)
        \/ FallbackRecommend(r, U)
        \/ FallbackBatch(r, U)

-----------------------------------------------------------------------------
(* Inputs *)

MaxTopN == 2

MaxMeetings == 2

Absent == "<absent>"

\* the dict of the fields of f that are not Absent
TextDict(f) == [k \in {x \in DOMAIN f : f[x] /= Absent} |-> f[k]]

\* a parsed query: text fields, a confidence (none when negative), keywords
Query(text, confidence, keywords) ==
    Merge(Merge(TextDict(text), IF confidence < 0 THEN <<>> ELSE [confidence |-> confidence]),
          [keywords |-> keywords])

LadderQueries ==
    {Query([vibe |-> v, time_slot |-> t1, timeSlot |-> t2, category |-> c, subcategory |-> sc],
           cf, <<"(sil)(nae)", "(yo)(ga)">>) :
        v \in {Absent, None, "(hil)(ling)"}, t1 \in {Absent, "(o)(jeon)"},
        t2 \in {Absent, "night"}, c \in {Absent, "(seu)(po)(cheu)"},
        sc \in {Absent, "(reo)(ning)"}, cf \in {-1, 50, 90}}

FullQuery ==
    Query([vibe |-> "(hil)(ling)", time_slot |-> "(o)(jeon)", timeSlot |-> Absent,
           category |-> "(seu)(po)(cheu)", subcategory |-> "(reo)(ning)"], 95, <<"(yo)(ga)">>)

BareQuery ==
    Query([vibe |-> "(yeo)(yu)(ro)(un)", time_slot |-> Absent, timeSlot |-> Absent,
           category |-> Absent, subcategory |-> Absent], 50, <<>>)

PromptNeutral == "(an)(nyeong)"

PromptQuiet == "(jo)(yong)(hi) (ka)(pe)(e)(seo) (swi)(go) (sip)(eo)(yo)"

PromptActive == "(ju)(mal)(e) (un)(dong)"

SpringContext ==
    [userId |-> 1, lat |-> "37.4979", lng |-> "127.0276", interests |-> "(yo)(ga)",
     timePreference |-> "evening", budgetType |-> "QUALITY"]

MeetingSports ==
    [meeting_id |-> "11", title |-> "run", category |-> "(seu)(po)(cheu)",
     subcategory |-> "(reo)(ning)", time_slot |-> "(o)(jeon)", location_type |-> "outdoor",
     distance_km |-> "2.5", max_participants |-> "8", current_participants |-> "3"]

MeetingCafe ==
    [meetingId |-> "12", title |-> "brunch", category |-> "(ka)(pe)",
     subcategory |-> "(beu)(reon)(chi)", timeSlot |-> "AFTERNOON", locationType |-> "INDOOR",
     distanceKm |-> "4.0", expectedCost |-> "15000"]

MeetingFood ==
    [meeting_id |-> "13", title |-> "dinner", category |-> "(mat)(jip)",
     subcategory |-> "(han)(sik)", time_slot |-> "evening"]

MeetingBoard ==
    [meeting_id |-> "12", title |-> "board", category |-> "(so)(syeol)",
     subcategory |-> "(bo)(deu)(ge)(im)", time_slot |-> "EVENING", location_type |-> "INDOOR",
     location_name |-> "(hong)(dae)", current_participants |-> "4"]

\* a category that has no templates of its own
MeetingStudy ==
    [meeting_id |-> "14", title |-> "study", category |-> "(seu)(teo)(di)",
     subcategory |-> "(dok)(seo)", location_name |-> "(gang)(nam)", distance_km |-> "1.2"]

\* the lists of 1..MaxMeetings meetings drawn from ms
Lists(ms) == UNION {[1..n -> ms] : n \in 1..MaxMeetings}

Failures == {[kind |-> "exception"], [kind |-> "status"]}

Found(ms) == {[kind |-> "ok", meetings |-> l] : l \in Lists(ms)}

Empty == [kind |-> "ok", meetings |-> <<>>]

FeatNear ==
    [ok |-> TRUE,
     feat |-> [distance_km |-> 25, time_match |-> 100, location_type_match |-> 0,
               cost_match_score |-> 80, interest_match_score |-> 60]]

FeatRaises == [ok |-> FALSE]

AllLoaded == [regressor |-> TRUE, feature_builder |-> TRUE, svd |-> TRUE]

SvdList == <<[mid |-> "11", score |-> 420], [mid |-> "12", score |-> 300]>>

\* the ladder in full: every query shape, every kind of answer at every level
ULadder ==
    [prompts |-> {PromptNeutral}, user_ids |-> {1}, top_ns |-> {1}, rids |-> {"0a1b2c3d"},
     queries |-> LadderQueries, contexts |-> {SpringContext},
     alias |-> BOOLEAN, defaults |-> {<<>>},
     responses |-> [l \in 0..LastLevel |-> Failures \cup {Empty} \cup Found({MeetingSports})],
     outcomes |-> {FeatNear, FeatRaises}, ratings |-> {32},
     gpt |-> [texts |-> {"text"}, fails |-> FALSE],
     svd_lists |-> {SvdList},
     batch_responses |-> Failures \cup {[kind |-> "ok", meetings |-> <<MeetingSports>>]},
     loaded |-> {AllLoaded}, record |-> FALSE]

\* the scores in full: every intent, ratings inside and outside 1.0-5.0, candidates
\* that the adjustment rewards and penalises, top_n from 0; the ladder finds
\* candidates at L0 or nowhere
PlainQuery ==
    Query([vibe |-> Absent, time_slot |-> Absent, timeSlot |-> Absent,
           category |-> "(ka)(pe)", subcategory |-> Absent], 95, <<"(ka)(pe)">>)

UScore ==
    [prompts |-> {PromptNeutral, PromptQuiet, PromptActive}, user_ids |-> {1},
     top_ns |-> 0..MaxTopN, rids |-> {"0a1b2c3d"},
     queries |-> {FullQuery, PlainQuery}, contexts |-> {},
     alias |-> {FALSE}, defaults |-> {<<>>},
     responses |-> [l \in 0..LastLevel |->
                      IF l = 0 THEN {[kind |-> "exception"], Empty}
                                    \cup Found({MeetingSports, MeetingCafe})
                      ELSE {Empty}],
     outcomes |-> {FeatNear, FeatRaises}, ratings |-> {-8, 12, 32, 56},
     gpt |-> [texts |-> {"text"}, fails |-> FALSE],
     svd_lists |-> {SvdList, <<[mid |-> "13", score |-> -100], [mid |-> "11", score |-> 700]>>, <<>>},
     batch_responses |-> Failures \cup {[kind |-> "ok", meetings |-> <<MeetingSports, MeetingCafe>>],
                                        [kind |-> "ok", meetings |-> <<MeetingFood, MeetingSports>>]},
     loaded |-> {AllLoaded}, record |-> FALSE]

\* two calls in turn; the second is given what the first was given.  What is no
\* input differs freely: the log tag, the text of the language model, the template
\* that random.choice picks
UReplay ==
    [prompts |-> {PromptNeutral}, user_ids |-> {1}, top_ns |-> {1, 2},
     rids |-> {"0a1b2c3d", "9f8e7d6c"},
     queries |-> {BareQuery}, contexts |-> {SpringContext},
     alias |-> BOOLEAN, defaults |-> {<<>>},
     responses |-> [l \in 0..LastLevel |->
                      CASE l = 0 -> {[kind |-> "exception"], Empty,
                                     [kind |-> "ok", meetings |-> <<MeetingSports>>],
                                     [kind |-> "ok", meetings |-> <<MeetingSports, MeetingCafe>>],
                                     [kind |-> "ok", meetings |-> <<MeetingCafe, MeetingSports>>]}
                        [] l = 4 -> {Empty, [kind |-> "ok", meetings |-> <<MeetingCafe>>],
                                     [kind |-> "ok", meetings |-> <<MeetingStudy>>]}
                        [] OTHER -> {Empty}],
     outcomes |-> {FeatNear, FeatRaises}, ratings |-> {32, 36},
     gpt |-> [texts |-> {"text"}, fails |-> TRUE],
     svd_lists |-> {SvdList},
     batch_responses |-> {[kind |-> "status"],
                          [kind |-> "ok", meetings |-> <<MeetingSports, MeetingCafe>>]},
     loaded |-> {AllLoaded}, record |-> TRUE]

\* the scorer and the fallback recommender, with what they were given kept on record
UScorer ==
    [prompts |-> {PromptNeutral, PromptQuiet}, user_ids |-> {1}, top_ns |-> {1, 2},
     rids |-> {"0a1b2c3d"},
     queries |-> {PlainQuery}, contexts |-> {},
     alias |-> {FALSE}, defaults |-> {<<>>},
     responses |-> [l \in 0..LastLevel |->
                      IF l = 0
                      THEN {Empty,
                            [kind |-> "ok", meetings |-> <<MeetingCafe>>],
                            [kind |-> "ok", meetings |-> <<MeetingSports, MeetingCafe>>],
                            [kind |-> "ok", meetings |-> <<MeetingSports, MeetingCafe, MeetingBoard>>],
                            [kind |-> "ok", meetings |-> <<MeetingBoard, MeetingSports, MeetingCafe>>]}
                      ELSE {Empty}],
     outcomes |-> {FeatNear, FeatRaises}, ratings |-> {12, 32, 56},
     gpt |-> [texts |-> {"text"}, fails |-> FALSE],
     svd_lists |-> {SvdList, <<>>},
     batch_responses |-> {[kind |-> "status"],
                          [kind |-> "ok", meetings |-> <<MeetingSports, MeetingBoard>>],
                          [kind |-> "ok", meetings |-> <<MeetingBoard, MeetingSports>>],
                          [kind |-> "ok", meetings |-> <<MeetingSports, MeetingCafe>>]},
     loaded |-> {AllLoaded}, record |-> TRUE]

\* the filters: every shape of time-of-day, vibe and confidence, null and empty
\* values, with what the enricher answered kept on record
FilterQueries ==
    {Query([vibe |-> v, time_slot |-> t1, timeSlot |-> t2, category |-> c,
            subcategory |-> Absent], cf, kws) :
        v \in {Absent, None, "(hil)(ling)"}, t1 \in {Absent, None, "(o)(jeon)"},
        t2 \in {Absent, "night"}, c \in {"", "(seu)(po)(cheu)"},
        cf \in {-1, 89, 90}, kws \in {<<>>, <<"(sil)(nae)">>}}

UFilter ==
    [prompts |-> {PromptNeutral}, user_ids |-> {1}, top_ns |-> {1}, rids |-> {"0a1b2c3d"},
     queries |-> FilterQueries, contexts |-> {SpringContext},
     alias |-> BOOLEAN, defaults |-> {<<>>},
     responses |-> [l \in 0..LastLevel |->
                      {Empty, [kind |-> "ok", meetings |-> <<MeetingSports>>]}],
     outcomes |-> {FeatNear}, ratings |-> {32},
     gpt |-> [texts |-> {"text"}, fails |-> FALSE],
     svd_lists |-> {SvdList},
     batch_responses |-> {[kind |-> "ok", meetings |-> <<MeetingSports>>]},
     loaded |-> {AllLoaded}, record |-> TRUE]

\* the failures: a model that is not loaded, a lookup, a model call or the
\* language model failing, with what each collaborator answered kept on record
UFailure ==
    [prompts |-> {PromptNeutral}, user_ids |-> {1}, top_ns |-> 0..MaxTopN,
     rids |-> {"0a1b2c3d"},
     queries |-> {PlainQuery}, contexts |-> {SpringContext},
     alias |-> {FALSE}, defaults |-> {<<>>},
     responses |-> [l \in 0..LastLevel |->
                      CASE l = 0 -> {[kind |-> "exception"], Empty,
                                     [kind |-> "ok", meetings |-> <<MeetingSports>>],
                                     [kind |-> "ok", meetings |-> <<MeetingSports, MeetingCafe>>]}
                        [] l = 4 -> {Empty, [kind |-> "ok", meetings |-> <<MeetingCafe>>]}
                        [] OTHER -> {Empty}],
     outcomes |-> {FeatNear, FeatRaises}, ratings |-> {32},
     gpt |-> [texts |-> {"text"}, fails |-> TRUE],
     svd_lists |-> {SvdList, <<>>},
     batch_responses |-> Failures \cup {[kind |-> "ok", meetings |-> <<MeetingSports, MeetingCafe>>]},
     loaded |-> [regressor : BOOLEAN, feature_builder : BOOLEAN, svd : BOOLEAN],
     record |-> TRUE]

Init == InitOf(ULadder)

Next == NextOf({1}, ULadder)

Spec == Init /\ [][Next]_vars

InitScore == InitOf(UScore)

NextScore == NextOf({1}, UScore)

SpecScore == InitScore /\ [][NextScore]_vars

InitScorer == InitOf(UScorer)

NextScorer == NextOf({1}, UScorer)

SpecScorer == InitScorer /\ [][NextScorer]_vars

InitFilter == InitOf(UFilter)

NextFilter == NextOf({1}, UFilter)

SpecFilter == InitFilter /\ [][NextFilter]_vars

\* two requests on one service instance, each with a query, a context and catalog
\* answers of its own, with what each collaborator answered kept on record
UConcurrent ==
    [prompts |-> {PromptNeutral, PromptQuiet}, user_ids |-> {1}, top_ns |-> {1},
     rids |-> {"0a1b2c3d"},
     queries |-> {FullQuery, PlainQuery}, contexts |-> {SpringContext},
     alias |-> {FALSE}, defaults |-> {<<>>},
     responses |-> [l \in 0..LastLevel |->
                      {Empty, [kind |-> "ok", meetings |-> <<MeetingSports>>]}],
     outcomes |-> {FeatNear}, ratings |-> {32},
     gpt |-> [texts |-> {"text"}, fails |-> FALSE],
     svd_lists |-> {SvdList},
     batch_responses |-> {[kind |-> "ok", meetings |-> <<MeetingSports>>]},
     loaded |-> {AllLoaded}, record |-> TRUE]

InitConcurrent == InitOf(UConcurrent)

\* the steps of the two requests interleave at every await
NextConcurrent == NextOf(Req, UConcurrent)

SpecConcurrent == InitConcurrent /\ [][NextConcurrent]_vars

InitFailure == InitOf(UFailure)

NextFailure == NextOf({1}, UFailure)

SpecFailure == InitFailure /\ [][NextFailure]_vars

\* the helpers called on their own: the state of the requests does not matter to
\* them and does not change
pipeline == <<pc, user_prompt, user_id, top_n, rid, parsed_query, user_context,
              enriched_query, aliased, ladder, trace_steps, candidate_meetings,
              resp, sent, intent, scored_meetings, top_recommendations,
              svd_recommendations, svd_calls, batch_calls, result, heard, loaded>>

\* a text with and without blanks around it
Padded(w) == {w, " " \o w, w \o " ", " " \o w \o " "}

TimeslotInputs ==
    {None, "", " ", "  "}
    \cup UNION {Padded(w) : w \in
          {"morning", "MORNING", "Morning", "mOrNiNg", "afternoon", "AFTERNOON", "Afternoon",
           "evening", "EVENING", "Evening", "night", "NIGHT", "Night",
           "(o)(jeon)", "(a)(chim)", "(jeom)(sim)", "(o)(hu)", "(jeo)(nyeok)", "(bam)",
           "(ya)(gan)", "brunch", "Dawn", "(sae)(byeok)", "late night"}}

LocationTypeInputs ==
    {None, "", " ", "  "}
    \cup UNION {Padded(w) : w \in
          {"indoor", "INDOOR", "Indoor", "iNdOoR", "outdoor", "OUTDOOR", "Outdoor",
           "(sil)(nae)", "(sil)(oe)", "(ya)(oe)", "online", "Hybrid", "(on)(ra)(in)"}}

PromptBoth == "(jo)(yong)(hi) (reo)(ning)"

IntentPrompts ==
    {None, "", PromptNeutral, PromptQuiet, PromptActive, PromptBoth,
     "(deung)(san) (ha)(go) (ka)(pe)", "RUN (chuk)(gu)", "(hil)(ling)", "walk"}

IntentQueries ==
    {Query([vibe |-> v], cf, <<>>) :
        v \in {Absent, None, "", "(hil)(ling)", "(yeo)(yu)(ro)(un)", "(hwal)(gi)(chan)"},
        cf \in {50, 95}}

IntentCalls ==
    {[fn |-> "_detect_intent", args |-> <<p, q>>] : p \in IntentPrompts, q \in IntentQueries}

\* predicted ratings from -1.0 to 7.0, in eighths
RatingInputs == (-8)..56

MatchScoreCalls ==
    {[fn |-> "match_score", args |-> <<p1, p2>>] : p1 \in RatingInputs, p2 \in RatingInputs}

Calls(fn, inputs) == {[fn |-> fn, args |-> <<x>>] : x \in inputs}

\* feature dicts: every subset of the five keys, values on both sides of each test
FeatValues ==
    [distance_km : {25, 30, 31}, time_match : {0, 50, 100}, location_type_match : {0, 100},
     cost_match_score : {69, 70}, interest_match_score : {49, 50}]

FeatInputs ==
    {[k \in K |-> c[k]] : K \in SUBSET {"distance_km", "time_match", "location_type_match",
                                         "cost_match_score", "interest_match_score"},
                          c \in FeatValues}

Return(value) ==
    /\ returned' = [done |-> TRUE, value |-> value]
    /\ UNCHANGED <<given, pipeline, session>>

NormalizeTimeslot ==
    /\ given.fn = "_normalize_timeslot" /\ ~returned.done
    /\ Return(_normalize_timeslot(given.args[1]))

NormalizeLocationType ==
    /\ given.fn = "_normalize_location_type" /\ ~returned.done
    /\ Return(_normalize_location_type(given.args[1]))

\* a normalizer applied to a value and then to what it returned
NormalizeTwiceCalls ==
    {[fn |-> "normalize twice", args |-> <<"_normalize_timeslot", x>>] : x \in TimeslotInputs}
    \cup {[fn |-> "normalize twice", args |-> <<"_normalize_location_type", x>>] :
              x \in LocationTypeInputs}

NormalizeTwice ==
    /\ given.fn = "normalize twice" /\ ~returned.done
    /\ LET x == given.args[2]
       IN  IF given.args[1] = "_normalize_timeslot"
           THEN Return(<<_normalize_timeslot(x), _normalize_timeslot(_normalize_timeslot(x))>>)
           ELSE Return(<<_normalize_location_type(x),
                         _normalize_location_type(_normalize_location_type(x))>>)

\* line 396 of _score_meetings, for two predicted ratings
MatchScore ==
    /\ given.fn = "match_score" /\ ~returned.done
    /\ Return(<<BaseMatchScore(given.args[1]), BaseMatchScore(given.args[2])>>)

DetectIntent ==
    /\ given.fn = "_detect_intent" /\ ~returned.done
    /\ Return(_detect_intent(given.args[1], given.args[2]))

BuildKeyPoints ==
    /\ given.fn = "_build_key_points_from_feat" /\ ~returned.done
    /\ Return(_build_key_points_from_feat(given.args[1]))

\* candidates by category and subcategory: absent, null, empty, listed and unlisted
AdjustmentMeetings ==
    {TextDict([category |-> c, subcategory |-> s]) :
        c \in {Absent, None, "", "(seu)(po)(cheu)", "(ka)(pe)", "(mun)(hwa)", "(chwi)(mi)",
               "(mat)(jip)"},
        s \in {Absent, None, "(dok)(seo)", "(bo)(deu)(ge)(im)", "(jeon)(si)", "(seu)(teo)(di)",
               "(reo)(ning)"}}

AdjustmentCalls ==
    {[fn |-> "_apply_intent_adjustment", args |-> <<it, m>>] :
        it \in {"QUIET", "ACTIVE", "NEUTRAL"}, m \in AdjustmentMeetings}

ApplyIntentAdjustment ==
    /\ given.fn = "_apply_intent_adjustment" /\ ~returned.done
    /\ Return(_apply_intent_adjustment(given.args[1], given.args[2]))

\* the camelCase spelling of a snake_case key of the catalog
CamelKey(k) ==
    CASE k = "meeting_id" -> "meetingId"
      [] k = "time_slot" -> "timeSlot"
      [] k = "location_type" -> "locationType"
      [] k = "max_participants" -> "maxParticipants"
      [] k = "current_participants" -> "currentParticipants"
      [] k = "expected_cost" -> "expectedCost"
      [] k = "avg_rating" -> "avgRating"
      [] k = "rating_count" -> "ratingCount"
      [] k = "distance_km" -> "distanceKm"
      [] OTHER -> k

\* the record with every key in camelCase
Camel(rec) ==
    [c \in {CamelKey(k) : k \in DOMAIN rec} |->
        rec[CHOOSE k \in DOMAIN rec : CamelKey(k) = c]]

\* raw records in snake_case: fields absent, null, zero, known and unknown values
SnakeRecords ==
    {TextDict([meeting_id |-> id, category |-> "(ka)(pe)", time_slot |-> ts,
               location_type |-> lt, max_participants |-> mx, current_participants |-> cur,
               expected_cost |-> cost, avg_rating |-> avg, rating_count |-> cnt,
               distance_km |-> dist]) :
        id \in {Absent, "11"}, ts \in {Absent, "(o)(jeon)", "Night", "brunch"},
        lt \in {Absent, "(sil)(nae)", "OUTDOOR"}, mx \in {Absent, None, "8"},
        cur \in {"0", "3"}, cost \in {Absent, "15000"}, avg \in {None, "4.5"},
        cnt \in {Absent, "7"}, dist \in {Absent, "2.5"}}

\* _normalize_meeting of a record in snake_case and of the same record in camelCase
NormalizeMeetingCalls ==
    {[fn |-> "_normalize_meeting", args |-> <<rec, Camel(rec)>>] : rec \in SnakeRecords}

NormalizeMeeting ==
    /\ given.fn = "_normalize_meeting" /\ ~returned.done
    /\ Return(<<_normalize_meeting(given.args[1]), _normalize_meeting(given.args[2])>>)

\* collaborative scores from 1.00 to 5.00, in hundredths
SvdScoreInputs == 100..500

\* line 561 of _fallback_svd_recommendation, for one collaborative score
FallbackMatch ==
    /\ given.fn = "fallback_match_score" /\ ~returned.done
    /\ Return(FallbackMatchScore(given.args[1]))

InitPure ==
    /\ \/ given \in Calls("_normalize_timeslot", TimeslotInputs)
       \/ given \in IntentCalls
       \/ given \in MatchScoreCalls
       \/ given \in Calls("_normalize_location_type", LocationTypeInputs)
       \/ given \in Calls("_build_key_points_from_feat", FeatInputs)
       \/ given \in Calls("fallback_match_score", SvdScoreInputs)
       \/ given \in AdjustmentCalls
       \/ given \in NormalizeMeetingCalls
       \/ given \in NormalizeTwiceCalls
    /\ returned = Pending
    /\ db = EmptyTable
    /\ utcnow = 0
    /\ pc = [r \in Req |-> "idle"]
    /\ user_prompt = [r \in Req |-> ""]
    /\ user_id = [r \in Req |-> 0]
    /\ top_n = [r \in Req |-> 0]
    /\ rid = [r \in Req |-> ""]
    /\ parsed_query = [r \in Req |-> <<>>]
    /\ user_context = [r \in Req |-> <<>>]
    /\ enriched_query = [r \in Req |-> <<>>]
    /\ aliased = [r \in Req |-> FALSE]
    /\ ladder = [r \in Req |-> <<>>]
    /\ trace_steps = [r \in Req |-> <<>>]
    /\ candidate_meetings = [r \in Req |-> <<>>]
    /\ resp = [r \in Req |-> None]
    /\ sent = [r \in Req |-> <<>>]
    /\ intent = [r \in Req |-> None]
    /\ scored_meetings = [r \in Req |-> <<>>]
    /\ top_recommendations = [r \in Req |-> <<>>]
    /\ svd_recommendations = [r \in Req |-> <<>>]
    /\ svd_calls = [r \in Req |-> <<>>]
    /\ batch_calls = [r \in Req |-> <<>>]
    /\ result = [r \in Req |-> NoResult]
    /\ heard = [r \in Req |-> <<>>]
    /\ loaded = AllLoaded

NextPure ==
    \/ NormalizeTimeslot
    \/ NormalizeLocationType
    \/ DetectIntent
    \/ MatchScore
    \/ BuildKeyPoints
    \/ FallbackMatch
    \/ ApplyIntentAdjustment
    \/ NormalizeMeeting
    \/ NormalizeTwice

SpecPure == InitPure /\ [][NextPure]_vars

-----------------------------------------------------------------------------
(* NotificationService over the table notifications. Each method is one
   transaction: it queries, changes the rows it found and commits. The clock
   moves with every call. *)

MaxNotifications == 3

MaxTime == 5

\* the users the routes call the service for (user_id > 0)
Users == {1, 2}

\* the notification ids a caller may name, in the table or not
NotificationIds == 1..MaxNotifications

Table == db.notifications

\* read_at of a row never read: the column is NULL
NULL == -1

\* a filter without the condition on user_id
Filter_any_user(u, unread) == {id \in DOMAIN Table : unread => ~Table[id].is_read}

\* a filter without the condition on is_read
Filter_read_or_not(u, unread) == {id \in DOMAIN Table : Table[id].user_id = u}

\* the ids of the rows a filter keeps: user_id == u, and is_read == False if unread
Filter(u, unread) ==
    {id \in DOMAIN Table : /\ Table[id].user_id = u
                           /\ (unread => ~Table[id].is_read)}

\* NotificationResponse(...) of a row
NotificationResponse(n) ==
    [notification_id |-> n.notification_id, user_id |-> n.user_id,
     notification_type |-> n.notification_type, is_read |-> n.is_read,
     sent_at |-> n.sent_at, read_at |-> n.read_at]

\* the loop over the rows found: is_read = True, read_at = current_time
MarkRead(found, current_time) ==
    [id \in DOMAIN Table |->
        IF id \in found
        THEN [Table[id] EXCEPT !.is_read = TRUE, !.read_at = current_time]
        ELSE Table[id]]

\* self.db.delete(notification) for each row found
Delete(found) == [id \in DOMAIN Table \ found |-> Table[id]]

\* the method returns value, having left the table as rows
Commit(fn, args, rows, value) ==
    /\ utcnow < MaxTime
    /\ given' = [fn |-> fn, args |-> args]
    /\ returned' = [done |-> TRUE, value |-> value]
    /\ db' = [db EXCEPT !.notifications = rows]
    /\ utcnow' = utcnow + 1
    /\ UNCHANGED pipeline

CreateNotification(u) ==
    LET id == db.autoincrement + 1
        notification == [notification_id |-> id, user_id |-> u, notification_type |-> "BADGE",
                         is_read |-> FALSE, sent_at |-> utcnow, read_at |-> NULL]
    IN  /\ id <= MaxNotifications
        /\ utcnow < MaxTime
        /\ given' = [fn |-> "create_notification", args |-> <<u>>]
        /\ returned' = [done |-> TRUE, value |-> NotificationResponse(notification)]
        /\ db' = [notifications |-> [i \in DOMAIN Table \cup {id} |->
                                        IF i = id THEN notification ELSE Table[i]],
                  autoincrement |-> id]
        /\ utcnow' = utcnow + 1
        /\ UNCHANGED pipeline

RECURSIVE OrderBySentAtDesc(_)
OrderBySentAtDesc(found) ==
    IF found = {} THEN <<>>
    ELSE LET id == CHOOSE i \in found : \A j \in found : Table[j].sent_at <= Table[i].sent_at
         IN  <<NotificationResponse(Table[id])>> \o OrderBySentAtDesc(found \ {id})

\* limit = 20 and offset = 0, the defaults: the page holds every row found
GetNotifications(u, unread_only) ==
    Commit("get_notifications", <<u, unread_only>>, Table,
           [total_count |-> Cardinality(Filter(u, unread_only)),
            unread_count |-> Cardinality(Filter(u, TRUE)),
            notifications |-> OrderBySentAtDesc(Filter(u, unread_only))])

\* Optional[NotificationResponse]: the set of the one response, empty for None
GetNotificationById(id, u) ==
    Commit("get_notification_by_id", <<id, u>>, Table,
           IF id \in Filter(u, FALSE) THEN {NotificationResponse(Table[id])} ELSE {})

MarkAsRead(ids, u) ==
    LET found == ids \cap Filter(u, TRUE)
    IN  Commit("mark_as_read", <<ids, u>>, MarkRead(found, utcnow), Cardinality(found))

MarkAllAsRead(u) ==
    LET found == Filter(u, TRUE)
    IN  Commit("mark_all_as_read", <<u>>, MarkRead(found, utcnow), Cardinality(found))

DeleteNotification(id, u) ==
    IF id \in Filter(u, FALSE)
    THEN Commit("delete_notification", <<id, u>>, Delete({id}), TRUE)
    ELSE Commit("delete_notification", <<id, u>>, Table, FALSE)

DeleteNotifications(ids, u) ==
    LET found == ids \cap Filter(u, FALSE)
    IN  Commit("delete_notifications", <<ids, u>>, Delete(found), Cardinality(found))

GetUnreadCount(u) ==
    Commit("get_unread_count", <<u>>, Table, [unread_count |-> Cardinality(Filter(u, TRUE))])

\* every user's read rows sent before the cutoff
DeleteOldNotifications(days) ==
    LET cutoff_date == utcnow - days
        old_notifications == {id \in DOMAIN Table : /\ Table[id].is_read
                                                    /\ Table[id].sent_at < cutoff_date}
    IN  Commit("delete_old_notifications", <<days>>, Delete(old_notifications),
               Cardinality(old_notifications))

\* Notification.mark_as_read of an object
Notification_mark_as_read(n, now) ==
    IF ~n.is_read THEN [n EXCEPT !.is_read = TRUE, !.read_at = now] ELSE n

\* test_model: an object in memory, never saved, marked as read
TestModel ==
    LET notification == [notification_id |-> 1, user_id |-> 1, notification_type |-> "BADGE",
                         is_read |-> FALSE, sent_at |-> utcnow, read_at |-> NULL]
    IN  Commit("test_model", <<>>, Table, Notification_mark_as_read(notification, utcnow))

InitNotification == InitOf(ULadder)

NextNotification ==
    \/ \E u \in Users : CreateNotification(u)
    \/ \E u \in Users, unread_only \in BOOLEAN : GetNotifications(u, unread_only)
    \/ \E u \in Users, id \in NotificationIds : GetNotificationById(id, u)
    \/ \E u \in Users, ids \in SUBSET NotificationIds : MarkAsRead(ids, u)
    \/ \E u \in Users : MarkAllAsRead(u)
    \/ \E u \in Users, id \in NotificationIds : DeleteNotification(id, u)
    \/ \E u \in Users, ids \in SUBSET NotificationIds : DeleteNotifications(ids, u)
    \/ \E u \in Users : GetUnreadCount(u)
    \/ \E days \in {0, 2} : DeleteOldNotifications(days)
    \/ TestModel

SpecNotification == InitNotification /\ [][NextNotification]_vars

IsPrefix(a, b) == Len(a) <= Len(b) /\ a = SubSeq(b, 1, Len(a))

\* request 2 is called after request 1 has ended, with the same arguments, and its
\* collaborators answer as they answered request 1
Replay ==
    pc[2] /= "idle" =>
        /\ pc[1] \in {"done", "raised"}
        /\ user_prompt[2] = user_prompt[1]
        /\ user_id[2] = user_id[1]
        /\ top_n[2] = top_n[1]
        /\ IsPrefix(heard[2], heard[1])

InitReplay == InitOf(UReplay)

NextReplay ==
    \E r \in Req :
        \/ Call(r, UReplay) /\ Replay'
        \/ ParseQuery(r, UReplay) /\ Replay'
        \/ GetUserContext(r, UReplay) /\ Replay'
        \/ Enrich(r, UReplay) /\ Replay'
        \/ SearchSend(r) /\ Replay'
        \/ SearchRecv(r, UReplay) /\ Replay'
        \/ Score(r, UReplay) /\ Replay'
        \/ Reason(r, UReplay) /\ Replay'
        \/ FallbackRecommend(r, UReplay) /\ Replay'
        \/ FallbackBatch(r, UReplay) /\ Replay'

SpecReplay == InitReplay /\ [][NextReplay]_vars

-----------------------------------------------------------------------------
(* Properties of the relaxation ladder, under Spec *)

\* d without the keys ks
Without(d, ks) == [k \in (DOMAIN d) \ ks |-> d[k]]

Last(seq) == seq[Len(seq)]

\* some attempt of the request returned at least one candidate
Hit(r) == \E i \in 1..Len(trace_steps[r]) : trace_steps[r][i].count >= 1

\* every level of the ladder was tried and returned nothing
Exhausted(r) ==
    /\ Len(trace_steps[r]) = LastLevel + 1
    /\ \A i \in 1..Len(trace_steps[r]) : trace_steps[r][i].count = 0

LevelsIncreaseFromZero(r) ==
    /\ trace_steps[r] /= <<>> => trace_steps[r][1].level = 0
    /\ \A i, j \in 1..Len(trace_steps[r]) :
          i < j => trace_steps[r][i].level < trace_steps[r][j].level

\* C2: the levels of the trace steps are strictly increasing from 0, and once an
\* attempt has returned at least one candidate the request issues no further search
C2_LadderStopsAtFirstHit ==
    /\ [](\A r \in Req : LevelsIncreaseFromZero(r))
    /\ [][\A r \in Req : Hit(r) => sent'[r] = sent[r]]_vars

C2_Witness ==
    /\ Returned(1)
    /\ Len(trace_steps[1]) = 3
    /\ Last(trace_steps[1]).count >= 1
    /\ Len(sent[1]) = 3

\* C3: the trace is a complete audit: one step per search the catalog received, in
\* order, levels 0, 1, ..., k, each with the payload that was sent and the number of
\* candidates that came back, and every step before the last has count 0
C3_TraceIsCompleteAudit ==
    \A r \in Req :
        /\ Len(sent[r]) = Len(trace_steps[r]) + (IF pc[r] = "search_recv" THEN 1 ELSE 0)
        /\ \A i \in 1..Len(trace_steps[r]) :
              /\ trace_steps[r][i].level = i - 1
              /\ trace_steps[r][i].payload = sent[r][i]
              /\ i < Len(trace_steps[r]) => trace_steps[r][i].count = 0
        /\ (trace_steps[r] /= <<>> /\ pc[r] /= "search_recv") =>
              Last(trace_steps[r]).count = Len(candidate_meetings[r])

C3_Witness ==
    /\ Len(trace_steps[1]) = 4
    /\ Last(trace_steps[1]).count = 2
    /\ resp[1] = "ok"
    /\ "vibe" \in DOMAIN sent[1][1]
    /\ "timeSlot" \in DOMAIN sent[1][2]

\* C4: if all five levels returned an empty list, the envelope returned has
\* fallback true, final_level 4 and a trace of exactly five steps
C4_ExhaustedLadderFallsBack ==
    \A r \in Req :
        (Returned(r) /\ Len(sent[r]) = LastLevel + 1 /\ candidate_meetings[r] = <<>>) =>
            /\ result[r].search_trace.fallback = TRUE
            /\ result[r].search_trace.final_level = 4
            /\ Len(result[r].search_trace.steps) = 5

C4_Witness ==
    /\ Returned(1)
    /\ Len(sent[1]) = 5
    /\ candidate_meetings[1] = <<>>
    /\ result[1].search_trace.fallback = TRUE

\* C5: the collaborative fallback is used exactly when every level returned
\* nothing: after a hit the result has fallback false and the collaborative model
\* and the batch fetch are never called, also when the scorer skipped every candidate
C5_FallbackIffExhausted ==
    \A r \in Req :
        /\ (pc[r] \in {"fallback", "batch"} \/ svd_calls[r] /= <<>> \/ batch_calls[r] /= <<>>)
              => Exhausted(r)
        /\ Exhausted(r) => pc[r] \in {"fallback", "batch", "done", "raised"}
        /\ (Exhausted(r) /\ Returned(r)) => svd_calls[r] /= <<>>
        /\ Hit(r) => (svd_calls[r] = <<>> /\ batch_calls[r] = <<>>)
        /\ Returned(r) => (result[r].search_trace.fallback <=> Exhausted(r))

C5_Witness ==
    /\ Returned(1)
    /\ Hit(1)
    /\ candidate_meetings[1] /= <<>>
    /\ result[1].recommendations = <<>>
    /\ result[1].search_trace.fallback = FALSE
    /\ svd_calls[1] = <<>>

\* C6: a transport exception or a non-200 answer of the catalog search counts as
\* zero candidates for that level: a step with count 0 is appended, the request is
\* not aborted, and the ladder goes to the next level, or after L4 to the fallback
C6_SearchFailureIsEmpty ==
    [][\A r \in Req :
          (pc[r] = "search_recv" /\ pc'[r] /= "search_recv"
              /\ resp'[r] \in {"exception", "status"}) =>
             /\ trace_steps'[r] = Append(trace_steps[r], Last(trace_steps'[r]))
             /\ Last(trace_steps'[r]).count = 0
             /\ Last(trace_steps'[r]).level = Len(trace_steps[r])
             /\ pc'[r] = IF Len(trace_steps[r]) < 4 THEN "search_send" ELSE "fallback"]_vars

C6_Witness ==
    /\ resp[1] = "status"
    /\ pc[1] = "search_send"
    /\ Len(trace_steps[1]) = 2
    /\ Last(trace_steps[1]).count = 0


\* C7: L0 is the enriched query as it is, L1 is L0 without vibe, L2 is L1 without
\* time_slot and timeSlot, L3 is L2 without subcategory; each is what was sent, and
\* the base query object is not changed by the ladder
C7_LevelsDropOneAttribute ==
    /\ [](\A r \in Req :
            LET qs == ladder[r]
            IN  /\ Len(qs) >= 1 => qs[1] = enriched_query[r]
                /\ Len(qs) >= 2 => qs[2] = Without(qs[1], {"vibe"})
                /\ Len(qs) >= 3 => qs[3] = Without(qs[2], {"time_slot", "timeSlot"})
                /\ Len(qs) >= 4 => qs[4] = Without(qs[3], {"subcategory"})
                /\ Len(sent[r]) = Len(qs)
                /\ \A i \in 1..Len(qs) :
                      sent[r][i] = _to_spring_search_request(qs[i], user_context[r]))
    /\ [][\A r \in Req : pc[r] \in {"search_send", "search_recv"} =>
                            enriched_query'[r] = enriched_query[r]]_vars

C7_Witness ==
    /\ Len(ladder[1]) = 4
    /\ {"vibe", "time_slot", "timeSlot", "subcategory"} \subseteq DOMAIN enriched_query[1]
    /\ "timeSlot" \in DOMAIN ladder[1][2]
    /\ DOMAIN ladder[1][4] = (DOMAIN enriched_query[1]) \ {"vibe", "time_slot", "timeSlot", "subcategory"}

HasCategoryAndSubcategory(r) ==
    /\ Truthy(Get(enriched_query[r], "category"))
    /\ Truthy(Get(enriched_query[r], "subcategory"))

\* C8 as stated: for a base query with category and subcategory, the L4 payload is
\* the L2 payload without category (subcategory still sent)
C8_L4IsL2WithoutCategory ==
    \A r \in Req :
        (Len(sent[r]) = 5 /\ HasCategoryAndSubcategory(r)) =>
            /\ sent[r][5] = Without(sent[r][3], {"category"})
            /\ "subcategory" \in DOMAIN sent[r][5]

\* C8 amended: the L4 query is the L3 query without category: for a base query with
\* category and subcategory the L4 payload is the L3 payload without category, that
\* is the L2 payload without category and subcategory; L4 is terminal whatever it returns
C8_L4IsL3WithoutCategory ==
    \A r \in Req :
        /\ Len(ladder[r]) = 5 => ladder[r][5] = Without(ladder[r][4], {"category"})
        /\ (Len(sent[r]) = 5 /\ HasCategoryAndSubcategory(r)) =>
              /\ sent[r][5] = Without(sent[r][4], {"category"})
              /\ sent[r][5] = Without(sent[r][3], {"category", "subcategory"})
              /\ "category" \in DOMAIN sent[r][4]
              /\ "subcategory" \in DOMAIN sent[r][3]
        /\ Len(sent[r]) <= 5
        /\ Len(trace_steps[r]) = 5 => pc[r] \notin {"search_send", "search_recv"}

C8_Witness ==
    /\ Len(trace_steps[1]) = 5
    /\ HasCategoryAndSubcategory(1)
    /\ Last(trace_steps[1]).count >= 1
    /\ pc[1] = "score"

\* the fields of payload a, with their values, are among those of payload b
SubPayload(a, b) == \A k \in DOMAIN a : k \in DOMAIN b /\ a[k] = b[k]

\* C9: the levels only loosen: the filter fields of each payload sent, with their
\* values, are among those of the payload sent before, so a constraint once dropped
\* is in no later payload
C9_PayloadsOnlyLoosen ==
    \A r \in Req :
        \A i, j \in 1..Len(sent[r]) : i < j => SubPayload(sent[r][j], sent[r][i])

C9_Witness ==
    /\ Len(sent[1]) = 5
    /\ {"vibe", "timeSlot", "subcategory", "category"} \subseteq DOMAIN sent[1][1]
    /\ "vibe" \notin DOMAIN sent[1][2]
    /\ "timeSlot" \notin DOMAIN sent[1][3]
    /\ "subcategory" \notin DOMAIN sent[1][4]
    /\ "category" \notin DOMAIN sent[1][5]

-----------------------------------------------------------------------------
(* Properties of the scores, under SpecScore *)

Recommendations(r) == result[r].recommendations

\* C1: in every envelope returned, on the scored path and on the fallback path, each
\* candidate's match_score is an integer from 0 to 100 after the intent adjustment,
\* whatever the predicted rating or collaborative score and whatever the adjustment
C1_MatchScoreInRange ==
    \A r \in Req :
        Returned(r) =>
            \A i \in 1..Len(Recommendations(r)) : Recommendations(r)[i].match_score \in 0..100

C1_Witness ==
    /\ Returned(1)
    /\ result[1].search_trace.fallback = FALSE
    /\ \E i \in 1..Len(Recommendations(1)) :
          LET rec == Recommendations(1)[i]
          IN  /\ rec.predicted_rating = 56
              /\ _apply_intent_adjustment(rec.intent, Meeting(rec)) = 15
              /\ rec.match_score = 100
    /\ \E i \in 1..Len(Recommendations(1)) :
          LET rec == Recommendations(1)[i]
          IN  /\ rec.predicted_rating = 12
              /\ _apply_intent_adjustment(rec.intent, Meeting(rec)) = -25
              /\ rec.match_score = 0

-----------------------------------------------------------------------------
(* Determinism, under SpecReplay *)

\* the id of a recommendation, on either path
IdOf(rec) == OrNum(Get(Meeting(rec), "meeting_id"), Get(Meeting(rec), "meetingId"))

\* the ranked order of an envelope: ids and match scores
Ranked(r) ==
    [i \in 1..Len(Recommendations(r)) |->
        [id |-> IdOf(Recommendations(r)[i]), match_score |-> Recommendations(r)[i].match_score]]

\* C10: two calls given the same prompt, user, top_n, parsed query, user context,
\* enriched query, catalog answers and model outputs return the same ranked order
\* (ids and match scores) and the same trace (levels, labels, payloads, counts)
C10_SameInputsSameRankingAndTrace ==
    (/\ Returned(1) /\ Returned(2)
     /\ user_prompt[1] = user_prompt[2] /\ user_id[1] = user_id[2] /\ top_n[1] = top_n[2]
     /\ heard[1] = heard[2])
    => /\ Ranked(1) = Ranked(2)
       /\ result[1].search_trace = result[2].search_trace
       /\ result[1].total_candidates = result[2].total_candidates

C10_Witness ==
    /\ Returned(1) /\ Returned(2)
    /\ heard[1] = heard[2]
    /\ rid[1] /= rid[2]
    /\ Len(Recommendations(1)) = 2
    /\ Recommendations(1)[1].match_score = Recommendations(1)[2].match_score
    /\ Recommendations(1)[1].reasoning /= Recommendations(2)[1].reasoning
    /\ result[2].search_trace.steps /= <<>>
    /\ aliased[1]

-----------------------------------------------------------------------------
(* Scenarios *)

\* C11: for the prompt "(jo)(yong)(hi) (ka)(pe)(e)(seo) (swi)(go) (sip)(eo)(yo)" and a
\* candidate of category "(seu)(po)(cheu)" with predicted rating 4.0, the base match
\* score is 75, the intent is QUIET and the final match score is 50.  Under SpecScore
C11_QuietPromptPenalizesSports ==
    \A r \in Req :
        (Returned(r) /\ user_prompt[r] = PromptQuiet /\ ~result[r].search_trace.fallback) =>
            /\ intent[r] = "QUIET"
            /\ \A i \in 1..Len(Recommendations(r)) :
                  LET rec == Recommendations(r)[i]
                  IN  (Meeting(rec).category = "(seu)(po)(cheu)" /\ rec.predicted_rating = 32) =>
                          /\ BaseMatchScore(rec.predicted_rating) = 75
                          /\ rec.intent = "QUIET"
                          /\ rec.match_score = 50

C11_Witness ==
    /\ Returned(1)
    /\ user_prompt[1] = PromptQuiet
    /\ ~result[1].search_trace.fallback
    /\ Get(parsed_query[1], "vibe") = None
    /\ \E i \in 1..Len(Recommendations(1)) :
          LET rec == Recommendations(1)[i]
          IN  /\ Meeting(rec).category = "(seu)(po)(cheu)"
              /\ rec.predicted_rating = 32
              /\ rec.match_score = 50

\* what the catalog answered to the batch fetch of request r, if it answered
BatchAnswers(r) ==
    {heard[r][i].answer : i \in {j \in 1..Len(heard[r]) : /\ heard[r][j].from = "batch"
                                                          /\ "answer" \in DOMAIN heard[r][j]}}

\* the recommendations of request r whose record names meeting_id as id
WithId(r, id) ==
    {i \in 1..Len(Recommendations(r)) : Get(Meeting(Recommendations(r)[i]), "meeting_id") = id}

\* the premise of C12: every level was empty, the collaborative model returned
\* [(11, 4.2), (12, 3.0)], top_n = 2, the batch fetch returned the two records with
\* meeting_id 11 and 12, and the intent is NEUTRAL
FallbackScenario(r) ==
    /\ Returned(r)
    /\ Len(trace_steps[r]) = 5
    /\ \A i \in 1..5 : trace_steps[r][i].count = 0
    /\ svd_recommendations[r] = <<[mid |-> "11", score |-> 420], [mid |-> "12", score |-> 300]>>
    /\ top_n[r] = 2
    /\ \E a \in BatchAnswers(r) :
          /\ a.kind = "ok"
          /\ Len(a.meetings) = 2
          /\ {Get(a.meetings[i], "meeting_id") : i \in 1..2} = {"11", "12"}
    /\ _detect_intent(user_prompt[r], parsed_query[r]) = "NEUTRAL"

-----------------------------------------------------------------------------
(* The scorer, under SpecScorer *)

\* what request r heard from the feature builder and the regressor, if it got there
ModelsHeard(r) ==
    {heard[r][i] : i \in {j \in 1..Len(heard[r]) : heard[r][j].from = "models"}}

StrictlyIncreasing(f) == \A i, j \in DOMAIN f : i < j => f[i] < f[j]

-----------------------------------------------------------------------------
(* The search filters, under SpecFilter *)

\* what enrich_with_user_context answered to request r, if it answered
EnricherAnswers(r) ==
    {heard[r][i].answer :
        i \in {j \in 1..Len(heard[r]) : /\ heard[r][j].from = "enrich_with_user_context"
                                        /\ "answer" \in DOMAIN heard[r][j]}}

\* the enriched query has a non-null time-of-day, under either key
HasTimeOfDay(q) == Get(q, "time_slot") /= None \/ Get(q, "timeSlot") /= None

Confident(q) == "confidence" \in DOMAIN q /\ q["confidence"] >= 90

\* C14: the L0 payload carries timeSlot exactly when the enriched query has a
\* non-null time-of-day under either key and confidence >= 0.9, and carries vibe
\* exactly when vibe is non-null and confidence >= 0.9; with a confidence below
\* 0.9 or missing neither is sent at any level
C14_FiltersSentIffConfident ==
    \A r \in Req : \A q \in EnricherAnswers(r) :
        /\ sent[r] /= <<>> =>
              /\ "timeSlot" \in DOMAIN sent[r][1] <=> (HasTimeOfDay(q) /\ Confident(q))
              /\ "vibe" \in DOMAIN sent[r][1] <=> (Get(q, "vibe") /= None /\ Confident(q))
        /\ ~Confident(q) =>
              \A i \in 1..Len(sent[r]) : DOMAIN sent[r][i] \cap {"timeSlot", "vibe"} = {}

\* a confident time-of-day given under timeSlot alone is not sent
C14_Witness ==
    /\ sent[1] /= <<>>
    /\ \E q \in EnricherAnswers(1) :
          /\ Get(q, "timeSlot") = "night"
          /\ "time_slot" \notin DOMAIN q
          /\ Confident(q)
    /\ "timeSlot" \notin DOMAIN sent[1][1]

\* the payloads of request r: those sent and those recorded in its trace
Payloads(r) ==
    {sent[r][i] : i \in 1..Len(sent[r])}
    \cup {trace_steps[r][i].payload : i \in 1..Len(trace_steps[r])}

\* C15: no payload sent to the catalog or recorded in the trace has a field that is
\* null or the empty string, and every field with a present, non-empty value is in
\* the payload with that value, page = 0 included
C15_PayloadHasNoNullOrEmpty ==
    \A r \in Req :
        /\ \A P \in Payloads(r) :
              /\ \A k \in DOMAIN P : P[k] /= None /\ P[k] /= ""
              /\ {"page", "size", "sortBy", "sortDirection", "radius"} \subseteq DOMAIN P
              /\ P["page"] = "0" /\ P["size"] = "200"
              /\ P["sortBy"] = "createdAt" /\ P["sortDirection"] = "desc"
        /\ \A i \in 1..Len(sent[r]) :
              LET q == ladder[r][i]
                  P == sent[r][i]
              IN  /\ \A k \in {"category", "subcategory", "vibe"} :
                        IF Get(q, k) \in {None, ""} THEN k \notin DOMAIN P
                        ELSE k \in DOMAIN P /\ P[k] = q[k]
                  /\ P["radius"] = GetDefault(q, "radius", "5.0")
                  /\ Get(P, "latitude") \in {Get(user_context[r], "lat"),
                                            Get(user_context[r], "latitude")} \ {None}
                  /\ "keyword" \in DOMAIN P <=> Keywords(q) /= <<>>

C15_Witness ==
    /\ Len(sent[1]) >= 1
    /\ Get(ladder[1][1], "category") = ""
    /\ "subcategory" \notin DOMAIN ladder[1][1]
    /\ Keywords(ladder[1][1]) = <<>>
    /\ DOMAIN sent[1][1] = {"latitude", "longitude", "radius", "page", "size", "sortBy", "sortDirection"}
    /\ sent[1][1]["page"] = "0"

-----------------------------------------------------------------------------
(* The helpers called on their own, under SpecPure *)

\* a call of fn has returned
Called(fn) == given.fn = fn /\ returned.done

\* the synonyms of each canonical value, in lower case
Synonyms ==
    [MORNING |-> {"morning", "(o)(jeon)", "(a)(chim)"},
     AFTERNOON |-> {"afternoon", "(jeom)(sim)", "(o)(hu)"},
     EVENING |-> {"evening", "(jeo)(nyeok)"},
     NIGHT |-> {"night", "(bam)", "(ya)(gan)"},
     INDOOR |-> {"indoor", "(sil)(nae)"},
     OUTDOOR |-> {"outdoor", "(sil)(oe)", "(ya)(oe)"}]

\* what a normalizer with the canonical values canon is to return for x
Canonical(x, canon) ==
    IF x \in {None, ""} THEN None
    ELSE LET core == Lower(Strip(x))
         IN  IF \E c \in canon : core \in Synonyms[c]
             THEN CHOOSE c \in canon : core \in Synonyms[c]
             ELSE Upper(Strip(x))

\* C16: _normalize_timeslot and _normalize_location_type map every synonym, in any
\* letter case and with blanks around it, to its canonical value, None to None, and
\* an unknown non-empty text to its upper case; no input makes them raise
C16_NormalizersMapSynonyms ==
    /\ Called("_normalize_timeslot") =>
          /\ returned.value = Canonical(given.args[1], {"MORNING", "AFTERNOON", "EVENING", "NIGHT"})
          /\ given.args[1] = "(o)(jeon)" => returned.value = "MORNING"
          /\ given.args[1] = "NIGHT" => returned.value = "NIGHT"
          /\ given.args[1] = None => returned.value = None
          /\ given.args[1] = " Evening " => returned.value = "EVENING"
          /\ given.args[1] = "brunch" => returned.value = "BRUNCH"
    /\ Called("_normalize_location_type") =>
          /\ returned.value = Canonical(given.args[1], {"INDOOR", "OUTDOOR"})
          /\ given.args[1] = "(ya)(oe) " => returned.value = "OUTDOOR"
          /\ given.args[1] = "iNdOoR" => returned.value = "INDOOR"
          /\ given.args[1] = None => returned.value = None
          /\ given.args[1] = "online" => returned.value = "ONLINE"

C16_Witness ==
    /\ Called("_normalize_timeslot")
    /\ given.args[1] = " mOrNiNg "
    /\ returned.value = "MORNING"

\* the prompt has a word of the list, whatever its letter case
HasWord(prompt, words) ==
    prompt /= None /\ \E w \in Range(words) : Contains(Lower(prompt), w)

\* C17: _detect_intent returns one of QUIET, ACTIVE, NEUTRAL: QUIET if the prompt has
\* a quiet word, even with an active word; otherwise ACTIVE if it has an active word,
\* even with a quiet vibe; the vibe is read only when the prompt has neither, and
\* "(hil)(ling)" and "(yeo)(yu)(ro)(un)" give QUIET; everything else is NEUTRAL
C17_IntentPrecedence ==
    Called("_detect_intent") =>
        LET prompt == given.args[1]
            vibe == Get(given.args[2], "vibe")
        IN  /\ returned.value \in {"QUIET", "ACTIVE", "NEUTRAL"}
            /\ HasWord(prompt, quiet_words) => returned.value = "QUIET"
            /\ (~HasWord(prompt, quiet_words) /\ HasWord(prompt, active_words)) =>
                  returned.value = "ACTIVE"
            /\ (~HasWord(prompt, quiet_words) /\ ~HasWord(prompt, active_words)) =>
                  returned.value = IF vibe \in {"(hil)(ling)", "(yeo)(yu)(ro)(un)"}
                                   THEN "QUIET" ELSE "NEUTRAL"
            /\ prompt = PromptBoth => returned.value = "QUIET"
            /\ prompt = PromptActive => returned.value = "ACTIVE"
            /\ prompt = PromptNeutral =>
                  (returned.value = "QUIET" <=> vibe \in {"(hil)(ling)", "(yeo)(yu)(ro)(un)"})

C17_Witness ==
    /\ Called("_detect_intent")
    /\ given.args[1] = PromptBoth
    /\ Get(given.args[2], "vibe") = "(hwal)(gi)(chan)"
    /\ returned.value = "QUIET"

\* C20: the base match score is round((rating - 1) / 4 * 100) clamped to 0..100: it
\* does not decrease when the rating grows, is 0 for a rating <= 1.0 and 100 for a
\* rating >= 5.0, and is 0, 25, 50, 75, 100 for 1.0, 2.0, 3.0, 4.0, 5.0
C20_BaseMatchScoreIsClampedRound ==
    Called("match_score") =>
        LET p == given.args[1]
            s == returned.value[1]
            exact == 25 * (p - 8)       \* 8 times (rating - 1) / 4 * 100
        IN  /\ s \in 0..100
            /\ p <= 8 => s = 0
            /\ p >= 40 => s = 100
            /\ (8 < p /\ p < 40) =>
                  /\ 8 * s - exact \in (-4)..4
                  /\ 8 * s - exact \in {-4, 4} => s % 2 = 0
            /\ given.args[1] <= given.args[2] => returned.value[1] <= returned.value[2]
            /\ p = 8 => s = 0
            /\ p = 16 => s = 25
            /\ p = 24 => s = 50
            /\ p = 32 => s = 75
            /\ p = 40 => s = 100

C20_Witness ==
    /\ Called("match_score")
    /\ given.args = <<20, 21>>
    /\ returned.value = <<38, 41>>

-----------------------------------------------------------------------------
(* Intent adjustment, under SpecScore *)

Clamp(x) == IF x < 0 THEN 0 ELSE IF x > 100 THEN 100 ELSE x

\* the base match score of a returned candidate: from its predicted rating on the
\* scored path, from its collaborative score on the fallback path
BaseOf(r, rec) ==
    IF result[r].search_trace.fallback
    THEN IF rec.svd_score >= 500 THEN 100
         ELSE IF rec.svd_score >= 0 THEN rec.svd_score \div 5 ELSE -((-rec.svd_score) \div 5)
    ELSE BaseMatchScore(rec.predicted_rating)

\* C18: the intent of a request is classified once from the prompt and the parsed
\* query, and every candidate returned, on either path, carries that intent
C18_OneIntentPerRequest ==
    \A r \in Req :
        Returned(r) =>
            /\ intent[r] = _detect_intent(user_prompt[r], parsed_query[r])
            /\ \A i \in 1..Len(Recommendations(r)) : Recommendations(r)[i].intent = intent[r]
            /\ \A i, j \in 1..Len(Recommendations(r)) :
                  Recommendations(r)[i].intent = Recommendations(r)[j].intent

C18_Witness ==
    /\ Returned(1)
    /\ result[1].search_trace.fallback
    /\ intent[1] = "QUIET"
    /\ Len(Recommendations(1)) = 2
    /\ _apply_intent_adjustment(intent[1], Meeting(Recommendations(1)[1])) = 0
    /\ _apply_intent_adjustment(intent[1], Meeting(Recommendations(1)[2])) = -25
    /\ Recommendations(1)[1].intent = "QUIET"

\* categories and subcategories, listed in _apply_intent_adjustment and not
Categories ==
    {None, "", "(seu)(po)(cheu)", "(ka)(pe)", "(mun)(hwa)", "(chwi)(mi)", "(mat)(jip)", "(so)(syeol)"}

Subcategories ==
    {None, "", "(dok)(seo)", "(bo)(deu)(ge)(im)", "(jeon)(si)", "(seu)(teo)(di)", "(reo)(ning)"}

\* C19: _apply_intent_adjustment returns a value from -25 to +15, 0 for NEUTRAL, for
\* every intent, category and subcategory, and the final match score of every
\* returned candidate is its base match score plus the adjustment, clamped to
\* 0..100: the adjustment is applied exactly once
C19_AdjustmentBoundedAppliedOnce ==
    /\ \A it \in {"QUIET", "ACTIVE", "NEUTRAL"}, c \in Categories, sc \in Subcategories :
          /\ _apply_intent_adjustment(it, [category |-> c, subcategory |-> sc]) \in (-25)..15
          /\ _apply_intent_adjustment("NEUTRAL", [category |-> c, subcategory |-> sc]) = 0
          /\ _apply_intent_adjustment(it, [title |-> "x"]) \in {0}
    /\ \A r \in Req :
          Returned(r) =>
              \A i \in 1..Len(Recommendations(r)) :
                  LET rec == Recommendations(r)[i]
                  IN  rec.match_score =
                          Clamp(BaseOf(r, rec) + _apply_intent_adjustment(intent[r], Meeting(rec)))

C19_Witness ==
    /\ Returned(1)
    /\ ~result[1].search_trace.fallback
    /\ intent[1] = "ACTIVE"
    /\ \E i \in 1..Len(Recommendations(1)) :
          LET rec == Recommendations(1)[i]
          IN  /\ rec.predicted_rating = 32
              /\ Meeting(rec).category = "(ka)(pe)"
              /\ rec.match_score = 65

-----------------------------------------------------------------------------
(* Key points *)

\* the five points, highest priority first
Priority == <<"near", "time", "location", "cost", "interest">>

Rank(point) == CHOOSE i \in 1..Len(Priority) : Priority[i] = point

\* the test of each point, in the units of feat (tenths of a km, hundredths)
Qualifies(feat, point) ==
    LET key == CASE point = "near" -> "distance_km"
                 [] point = "time" -> "time_match"
                 [] point = "location" -> "location_type_match"
                 [] point = "cost" -> "cost_match_score"
                 [] point = "interest" -> "interest_match_score"
    IN  /\ key \in DOMAIN feat
        /\ CASE point = "near" -> feat[key] <= 30
              [] point \in {"time", "location"} -> feat[key] = 100
              [] point = "cost" -> feat[key] >= 70
              [] point = "interest" -> feat[key] >= 50

Points(out) == {out[i].point : i \in 1..Len(out)}

\* C21: the key points are at most three, each one qualifies, they follow the
\* priority order near, time, location, cost, interest, and a qualifying point
\* is left out only when three points of higher priority qualify
C21_KeyPointsFirstThreeByPriority ==
    Called("_build_key_points_from_feat") =>
        LET feat == given.args[1]
            out == returned.value
        IN  /\ Len(out) <= 3
            /\ \A i \in 1..Len(out) : Qualifies(feat, out[i].point)
            /\ \A i, j \in 1..Len(out) : i < j => Rank(out[i].point) < Rank(out[j].point)
            /\ \A i \in 1..Len(Priority) :
                   Qualifies(feat, Priority[i]) /\ Priority[i] \notin Points(out)
                   => Cardinality({j \in 1..(i - 1) : Qualifies(feat, Priority[j])}) >= 3
            /\ \A i \in 1..Len(out) :
                   out[i].point = "near" => out[i].distance_km = feat["distance_km"]

C21_Witness ==
    /\ Called("_build_key_points_from_feat")
    /\ \A i \in 1..Len(Priority) : Qualifies(given.args[1], Priority[i])
    /\ Points(returned.value) = {"near", "time", "location"}

-----------------------------------------------------------------------------
(* Order and size of the returned list *)

\* the request returned an envelope of the scored path
ScoredPath(r) == Returned(r) /\ "fallback" \notin DOMAIN result[r]

\* the request returned an envelope of the fallback path
FallbackPath(r) == Returned(r) /\ "fallback" \in DOMAIN result[r]

\* C22: on the scored path the returned list is the first top_n of the scored
\* candidates in descending order of adjusted match score, equal scores in the
\* order of the candidate list: each returned record is a scored candidate, a
\* record stands before another when its score is higher or it is equal and came
\* earlier, and every omitted candidate would sort after every returned one
C22_ScoredListIsStableSortTruncated ==
    \A r \in Req :
        ScoredPath(r) =>
            LET recs == Recommendations(r)
                all == scored_meetings[r]
                n == Min(top_n[r], Len(all))
            IN  /\ Len(recs) = n
                /\ \E f \in [1..n -> 1..Len(all)] :
                      /\ \A i \in 1..n : Pop(recs[i], "reasoning") = all[f[i]]
                      /\ \A i, j \in 1..n :
                            i < j => \/ recs[i].match_score > recs[j].match_score
                                     \/ /\ recs[i].match_score = recs[j].match_score
                                        /\ f[i] < f[j]
                      /\ \A k \in (1..Len(all)) \ {f[i] : i \in 1..n} :
                            \A i \in 1..n :
                                \/ all[k].match_score < recs[i].match_score
                                \/ /\ all[k].match_score = recs[i].match_score
                                   /\ f[i] < k

\* three candidates of equal final score, the first two returned in list order
C22_Witness ==
    /\ ScoredPath(1)
    /\ Len(scored_meetings[1]) = 3
    /\ Len(Recommendations(1)) = 2
    /\ \A k \in 1..3 : scored_meetings[1][k].match_score = Recommendations(1)[1].match_score
    /\ Meeting(Recommendations(1)[1]) /= Meeting(Recommendations(1)[2])

\* C23: for every top_n >= 0, on the scored and on the fallback path, an envelope
\* has at most top_n recommendations and at most total_candidates of them
C23_AtMostTopNAndTotal ==
    \A r \in Req :
        Returned(r) /\ top_n[r] >= 0 =>
            /\ Len(Recommendations(r)) <= top_n[r]
            /\ Len(Recommendations(r)) <= result[r].total_candidates

\* the fallback path cut two fetched records down to one
C23_Witness ==
    /\ FallbackPath(1)
    /\ top_n[1] = 1
    /\ result[1].total_candidates = 2
    /\ Len(Recommendations(1)) = 1

-----------------------------------------------------------------------------
(* The fallback path, under SpecScorer *)

\* every record the batch fetch returned to request r, with its final match score
Fetched(r, answer) ==
    LET meetings == BatchResult(answer)
    IN  AdjustAll([i \in 1..Len(meetings) |-> FallbackScored(meetings[i], svd_recommendations[r])],
                  _detect_intent(user_prompt[r], parsed_query[r]))

Scores(recs) == [i \in 1..Len(recs) |-> recs[i].match_score]

NonIncreasing(f) == \A i, j \in DOMAIN f : i < j => f[i] >= f[j]

\* C24: on the fallback path the returned recommendations are in non-increasing
\* order of final match score and are the top_n highest-scoring of all the
\* records the batch fetch returned
C24_FallbackSortedTopN ==
    \A r \in Req : \A a \in BatchAnswers(r) :
        FallbackPath(r) =>
            /\ NonIncreasing(Scores(Recommendations(r)))
            /\ Scores(Recommendations(r)) = Scores(Take(SortedDesc(Fetched(r, a)), top_n[r]))

\* top_n = 1: the one record returned scores 60, a fetched record that scores 84 is left out
C24_Witness ==
    /\ FallbackPath(1)
    /\ top_n[1] = 1
    /\ Scores(Recommendations(1)) = <<60>>
    /\ \E a \in BatchAnswers(1) : Scores(Fetched(1, a)) = <<60, 84>>

\* C25: the fallback match score of a collaborative score s from 1.0 to 5.0 is
\* min(100, round(s * 20)); s is in hundredths, so s * 20 is s / 5
C25_FallbackScoreIsRounded ==
    Called("fallback_match_score") =>
        returned.value = Min(100, RoundHalfEven(given.args[1], 5))

\* s = 4.19 gives 83, the integer part of 83.8
C25_Witness ==
    /\ Called("fallback_match_score")
    /\ given.args[1] = 419
    /\ returned.value = 83

-----------------------------------------------------------------------------
(* Failures, under SpecFailure *)

\* what the collaborative model returned to request r
RecommendAnswers(r) ==
    {heard[r][i].answer : i \in {j \in 1..Len(heard[r]) : /\ heard[r][j].from = "recommend"
                                                          /\ "answer" \in DOMAIN heard[r][j]}}

\* C26: on the fallback path the collaborative model is asked once, for 2 * top_n
\* items; the batch fetch is called once, with the ids the model returned, in
\* order; and when the batch fetch fails or answers with an error status the
\* request returns an envelope with no recommendations and fallback true
C26_FallbackAsksOnceAndSurvivesBatchFailure ==
    \A r \in Req :
        /\ Len(svd_calls[r]) <= 1
        /\ Len(batch_calls[r]) <= 1
        /\ svd_calls[r] /= <<>> =>
               svd_calls[r][1] = [user_id |-> user_id[r], top_n |-> 2 * top_n[r]]
        /\ batch_calls[r] /= <<>> =>
               \E a \in RecommendAnswers(r) : batch_calls[r][1] = [i \in 1..Len(a) |-> a[i].mid]
        /\ FallbackPath(r) => Len(svd_calls[r]) = 1 /\ Len(batch_calls[r]) = 1
        /\ \A a \in BatchAnswers(r) :
               a.kind /= "ok" =>
                   /\ FallbackPath(r)
                   /\ Recommendations(r) = <<>>
                   /\ result[r].fallback = TRUE
                   /\ result[r].search_trace.fallback = TRUE

C26_Witness ==
    /\ FallbackPath(1)
    /\ top_n[1] = 2
    /\ svd_calls[1] = <<[user_id |-> 1, top_n |-> 4]>>
    /\ batch_calls[1] = << <<"11", "12">> >>
    /\ \E a \in BatchAnswers(1) : a.kind = "exception"
    /\ Recommendations(1) = <<>>

\* the entries of request r's record that are readiness failures of the model loader
LoaderFailures(r) ==
    {i \in 1..Len(heard[r]) : heard[r][i].from = "model_loader"}

\* C27: when the ladder found a candidate and the regressor or the feature-builder
\* is not loaded, the request raises: predict is not called, no rationale is
\* generated, no envelope is returned.  When the ladder was exhausted and the
\* collaborative model is not loaded, the request raises before the model or the
\* batch fetch is called.  The check is made once and a raised request does nothing more
C27_UnloadedModelIsFatal ==
    /\ [](\A r \in Req :
            /\ (candidate_meetings[r] /= <<>> /\ ~(loaded.regressor /\ loaded.feature_builder)) =>
                   /\ pc[r] \in {"score", "raised"}
                   /\ ModelsHeard(r) = {}
                   /\ scored_meetings[r] = <<>> /\ top_recommendations[r] = <<>>
                   /\ result[r] = NoResult
            /\ (Exhausted(r) /\ ~loaded.svd) =>
                   /\ pc[r] \in {"fallback", "raised"}
                   /\ svd_calls[r] = <<>> /\ batch_calls[r] = <<>>
                   /\ result[r] = NoResult
            /\ Cardinality(LoaderFailures(r)) <= 1
            /\ LoaderFailures(r) /= {} => pc[r] = "raised")
    /\ [][\A r \in Req :
            /\ (pc[r] = "score" /\ ~(loaded.regressor /\ loaded.feature_builder)) =>
                   pc'[r] = "raised" /\ Cardinality(LoaderFailures(r)') = 1
            /\ (pc[r] = "fallback" /\ ~loaded.svd) =>
                   pc'[r] = "raised" /\ Cardinality(LoaderFailures(r)') = 1
            /\ pc[r] = "raised" => pc'[r] = "raised" /\ heard'[r] = heard[r]]_vars

\* two candidates were found, the feature-builder alone is missing, the request raised
C27_Witness ==
    /\ pc[1] = "raised"
    /\ Len(candidate_meetings[1]) = 2
    /\ loaded.regressor /\ ~loaded.feature_builder
    /\ LoaderFailures(1) /= {}
    /\ result[1] = NoResult

\* the user-context lookup of request r failed
ContextFailed(r) ==
    \E i \in 1..Len(heard[r]) : heard[r][i].from = "context" /\ "raised" \in DOMAIN heard[r][i]

\* C28: a failed user-context lookup does not abort the request: the step after it
\* is the enrichment, the context is the default one (latitude 37.5665, longitude
\* 126.9780, empty interests, zero meeting count), the enrichment is followed by
\* the L0 search unless the enricher itself raises, and every search payload of
\* the request carries the default coordinates
C28_ContextFailureUsesDefaults ==
    /\ [](\A r \in Req :
            ContextFailed(r) =>
                /\ Get(user_context[r], "latitude") = "37.5665"
                /\ Get(user_context[r], "longitude") = "126.9780"
                /\ Get(user_context[r], "interests") = ""
                /\ Get(user_context[r], "user_meeting_count") = "0"
                /\ pc[r] = "raised" => Last(heard[r]).from /= "context"
                /\ pc[r] \notin {"enrich", "search_send", "raised"} => Len(sent[r]) >= 1
                /\ \A i \in 1..Len(sent[r]) :
                       /\ Get(sent[r][i], "latitude") = "37.5665"
                       /\ Get(sent[r][i], "longitude") = "126.9780")
    /\ [][\A r \in Req :
            /\ pc[r] = "context" => pc'[r] = "enrich"
            /\ (pc[r] = "enrich" /\ pc'[r] /= "search_send") =>
                   pc'[r] = "raised" /\ Last(heard'[r]).from = "enrich_with_user_context"
            /\ (pc[r] = "search_send" /\ sent[r] = <<>>) => Len(sent'[r]) = 1]_vars

C28_Witness ==
    /\ ContextFailed(1)
    /\ Returned(1)
    /\ Len(sent[1]) = 5
    /\ sent[1][1]["latitude"] = "37.5665"
    /\ sent[1][1]["longitude"] = "126.9780"

\* the stages whose exception is not handled on the way to the caller
FatalStages ==
    {"parse_search_query", "enrich_with_user_context", "model_loader", "models", "recommend"}

\* the entries of request r's record where a collaborator of a fatal stage raised
Raised(r) ==
    {i \in 1..Len(heard[r]) : /\ heard[r][i].from \in FatalStages
                              /\ "raised" \in DOMAIN heard[r][i]}

\* C30: when query parsing, enrichment, the model-readiness check, the batch
\* predict or the collaborative recommend raises, the request ends raised at that
\* point and returns no envelope, whatever candidates or trace it already has;
\* a request ends raised for no other reason, an envelope is returned only by a
\* request that ran to its end, and a raised request does nothing more
C30_NoPartialSuccess ==
    /\ [](\A r \in Req :
            /\ Raised(r) /= {} => /\ pc[r] = "raised"
                                  /\ Raised(r) = {Len(heard[r])}
            /\ pc[r] = "raised" => Raised(r) /= {} /\ result[r] = NoResult
            /\ result[r] /= NoResult =>
                   /\ pc[r] = "done"
                   /\ {"recommendations", "total_candidates", "search_trace"}
                          \subseteq DOMAIN result[r])
    /\ [][\A r \in Req : pc[r] = "raised" => pc'[r] = "raised" /\ result'[r] = NoResult]_vars

\* predict raised after the ladder had found a candidate at L4, with five trace steps
C30_Witness ==
    /\ pc[1] = "raised"
    /\ Last(heard[1]).from = "models"
    /\ candidate_meetings[1] /= <<>>
    /\ Len(trace_steps[1]) = 5
    /\ result[1] = NoResult

-----------------------------------------------------------------------------
(* The rationale after a failure of the language model, under SpecReplay *)

\* the recommendations returned, by request and position, whose rationale is a template
TemplateRecs ==
    {x \in Req \X (1..MaxMeetings) :
        /\ Returned(x[1]) /\ ~result[x[1]].search_trace.fallback
        /\ x[2] <= Len(Recommendations(x[1]))
        /\ Recommendations(x[1])[x[2]].reasoning.source = "template"}

RecAt(x) == Recommendations(x[1])[x[2]]

\* the two candidates have identical fields, the rationale aside
SameFields(x, y) == Pop(RecAt(x), "reasoning") = Pop(RecAt(y), "reasoning")

\* C29 as stated: a failed rationale generation does not fail the request, and two
\* failures for candidates with identical fields yield the identical rationale
C29_TemplateIsDeterministic ==
    /\ [](\A x, y \in TemplateRecs : SameFields(x, y) => RecAt(x).reasoning = RecAt(y).reasoning)
    /\ [][\A r \in Req : pc[r] = "reason" => pc'[r] = "done"]_vars

\* C29, amended: a failed rationale generation does not fail the request; the
\* rationale is one of the templates listed for the candidate's category, filled
\* with the candidate's fields: one of two for the five listed categories, the
\* single default template for any other.  Two failures for candidates with
\* identical fields draw from the same list, and yield the identical text when
\* the list has one entry
C29_TemplateIsOneOfTheCategorysList ==
    /\ [](\A x \in TemplateRecs :
            LET m == Meeting(RecAt(x))
                t == RecAt(x).reasoning
                listed == Or(Get(m, "category"), "") \in
                              {"(ka)(pe)", "(seu)(po)(cheu)", "(mat)(jip)",
                               "(mun)(hwa)(ye)(sul)", "(so)(syeol)"}
            IN  /\ t.category = IF listed THEN m["category"] ELSE "default"
                /\ t.option \in IF listed THEN {1, 2} ELSE {1}
                /\ t.location = Or(Get(m, "location_name"), "(mi)(jeong)")
                /\ t.subcategory = Or(Get(m, "subcategory"), "")
                /\ \A y \in TemplateRecs :
                       SameFields(x, y) =>
                           /\ Pop(t, "option") = Pop(RecAt(y).reasoning, "option")
                           /\ ~listed => t = RecAt(y).reasoning)
    /\ [][\A r \in Req : pc[r] = "reason" => pc'[r] = "done"]_vars

\* the same candidate in two requests, the language model failing both times:
\* the first request got the first template of its category, the second the other
C29_Witness ==
    /\ <<1, 1>> \in TemplateRecs /\ <<2, 1>> \in TemplateRecs
    /\ SameFields(<<1, 1>>, <<2, 1>>)
    /\ RecAt(<<1, 1>>).reasoning.option = 1
    /\ RecAt(<<2, 1>>).reasoning.option = 2

-----------------------------------------------------------------------------
(* Two requests at once, under SpecConcurrent *)

\* everything request r holds: its arguments, its locals, its record, its result
Own(r) ==
    <<pc[r], user_prompt[r], user_id[r], top_n[r], rid[r], parsed_query[r], user_context[r],
      enriched_query[r], aliased[r], ladder[r], trace_steps[r], candidate_meetings[r],
      resp[r], sent[r], intent[r], scored_meetings[r], top_recommendations[r],
      svd_recommendations[r], svd_calls[r], batch_calls[r], result[r], heard[r]>>

\* what the catalog search answered to request r, in order
SearchAnswers(r) ==
    SelectSeq(heard[r], LAMBDA e : e.from = "search")

\* C31: two requests interleaved at their external calls do not interfere.  A step
\* of one request changes nothing the other holds and nothing they share; the
\* trace of a request holds its own ladder steps only (levels 0, 1, ..., the
\* payloads it sent itself, the counts of the answers it got itself); and the
\* envelope is decided by the request's own arguments and answers: two requests
\* given the same arguments and answers return the same envelope, however
\* their steps were interleaved
C31_ConcurrentRequestsDoNotInterfere ==
    /\ [](\A r \in Req :
            /\ Len(trace_steps[r]) <= LastLevel + 1
            /\ \A i \in 1..Len(trace_steps[r]) :
                   /\ trace_steps[r][i].level = i - 1
                   /\ trace_steps[r][i].payload = sent[r][i]
                   /\ trace_steps[r][i].payload =
                          _to_spring_search_request(ladder[r][i], user_context[r])
                   /\ trace_steps[r][i].count = Len(SearchResult(SearchAnswers(r)[i].answer))
            /\ Returned(r) => result[r].search_trace.steps = trace_steps[r])
    /\ []((/\ Returned(1) /\ Returned(2)
           /\ user_prompt[1] = user_prompt[2] /\ user_id[1] = user_id[2]
           /\ top_n[1] = top_n[2] /\ heard[1] = heard[2])
          => result[1] = result[2])
    /\ [][/\ loaded' = loaded
          /\ \A r, s \in Req : (r /= s /\ Own(r)' /= Own(r)) => Own(s)' = Own(s)]_vars

\* request 2 searched three times and returned while request 1, with another
\* query, was between its second search and the answer to it
C31_Witness ==
    /\ Returned(2)
    /\ Len(trace_steps[2]) = 3
    /\ pc[1] = "search_recv"
    /\ Len(sent[1]) = 2
    /\ parsed_query[1] /= parsed_query[2]

-----------------------------------------------------------------------------
(* The intent adjustment on its own, under SpecPure *)

CategoryOf(meeting) == Or(Get(meeting, "category"), "")

SubcategoryOf(meeting) == Or(Get(meeting, "subcategory"), "")

\* the candidates QUIET rewards: a quiet category or subcategory, and not sports
QuietRewards(meeting) ==
    /\ CategoryOf(meeting) /= "(seu)(po)(cheu)"
    /\ \/ CategoryOf(meeting) \in {"(ka)(pe)", "(mun)(hwa)", "(chwi)(mi)"}
       \/ SubcategoryOf(meeting) \in
              {"(dok)(seo)", "(bo)(deu)(ge)(im)", "(jeon)(si)", "(seu)(teo)(di)"}

\* C32 as stated: under ACTIVE a sports candidate gets a positive adjustment and
\* every candidate QUIET would reward gets a negative one
C32_ActiveIsConverseOfQuiet ==
    (Called("_apply_intent_adjustment") /\ given.args[1] = "ACTIVE") =>
        /\ CategoryOf(given.args[2]) = "(seu)(po)(cheu)" => returned.value > 0
        /\ QuietRewards(given.args[2]) => returned.value < 0

\* C32, amended: under ACTIVE a sports candidate gets +15, a candidate of category
\* (ka)(pe) or (mun)(hwa) gets -10 and every other candidate gets 0, also one of
\* category (chwi)(mi) or of a quiet subcategory; what ACTIVE penalizes is among
\* what QUIET rewards, and QUIET gives -25 to sports and +15 to what it rewards
C32_ActivePenalizesTwoCategories ==
    Called("_apply_intent_adjustment") =>
        LET m == given.args[2]
            v == returned.value
        IN  /\ given.args[1] = "ACTIVE" =>
                   /\ v = (IF CategoryOf(m) = "(seu)(po)(cheu)" THEN 15
                           ELSE IF CategoryOf(m) \in {"(ka)(pe)", "(mun)(hwa)"} THEN -10
                           ELSE 0)
                   /\ v < 0 => QuietRewards(m)
            /\ given.args[1] = "QUIET" =>
                   v = (IF CategoryOf(m) = "(seu)(po)(cheu)" THEN -25
                        ELSE IF QuietRewards(m) THEN 15 ELSE 0)
            /\ given.args[1] = "NEUTRAL" => v = 0

\* a candidate of a quiet subcategory that ACTIVE leaves alone
C32_Witness ==
    /\ Called("_apply_intent_adjustment")
    /\ given.args[1] = "ACTIVE"
    /\ SubcategoryOf(given.args[2]) = "(bo)(deu)(ge)(im)"
    /\ CategoryOf(given.args[2]) = "(mat)(jip)"
    /\ returned.value = 0

-----------------------------------------------------------------------------
(* A dropped vibe and the intent, under SpecFilter *)

\* what the parser answered to request r
ParserAnswers(r) ==
    {heard[r][i].answer : i \in {j \in 1..Len(heard[r]) : /\ heard[r][j].from = "parse_search_query"
                                                          /\ "answer" \in DOMAIN heard[r][j]}}

\* the prompt has no word of the QUIET or of the ACTIVE list
NoIntentWord(prompt) ==
    \A w \in Range(quiet_words) \cup Range(active_words) : ~Contains(Lower(prompt), w)

\* C33: for a prompt with no QUIET or ACTIVE word and a parsed vibe of (hil)(ling) or
\* (yeo)(yu)(ro)(un) with confidence below 0.9, no search payload carries vibe and
\* the intent of the request is QUIET, whether the enricher returned a fresh query
\* object or the parsed query object itself
C33_DroppedVibeStillGivesQuiet ==
    \A r \in Req : \A q \in ParserAnswers(r) :
        (/\ NoIntentWord(user_prompt[r])
         /\ Get(q, "vibe") \in {"(hil)(ling)", "(yeo)(yu)(ro)(un)"}
         /\ "confidence" \in DOMAIN q /\ q["confidence"] < 90) =>
            /\ \A i \in 1..Len(sent[r]) : "vibe" \notin DOMAIN sent[r][i]
            /\ intent[r] /= None => intent[r] = "QUIET"

\* the enricher returned the parsed query object itself: the vibe popped from the
\* enriched query is gone from the parsed query too, and the intent is NEUTRAL
C33_Witness ==
    /\ Returned(1)
    /\ aliased[1]
    /\ \E q \in ParserAnswers(1) :
          /\ Get(q, "vibe") = "(hil)(ling)"
          /\ "confidence" \in DOMAIN q /\ q["confidence"] = 89
    /\ "vibe" \notin DOMAIN parsed_query[1]
    /\ intent[1] = "NEUTRAL"

-----------------------------------------------------------------------------
(* The candidate adapter on its own, under SpecPure *)

\* the value is null or a synonym of the vocabulary, in any case
Known(value, synonyms) ==
    value \in {None, Absent} \/ \E c \in DOMAIN synonyms : Lower(Strip(value)) \in synonyms[c]

\* C34: a record in snake_case and the same record in camelCase normalize to the
\* same candidate, field by field; its time_slot is null or one of MORNING,
\* AFTERNOON, EVENING, NIGHT and its location type null or INDOOR or OUTDOOR
\* whenever the raw value is null or a synonym of the vocabulary
C34_AdapterIgnoresNamingConvention ==
    Called("_normalize_meeting") =>
        LET snake == given.args[1]
            from_snake == returned.value[1]
            from_camel == returned.value[2]
        IN  /\ from_snake = from_camel
            /\ from_camel.meeting_id = Get(snake, "meeting_id")
            /\ from_camel.distance_km = Get(snake, "distance_km")
            /\ Known(Get(snake, "time_slot"), Synonyms) =>
                   from_camel.time_slot \in {None, "MORNING", "AFTERNOON", "EVENING", "NIGHT"}
            /\ from_camel.meeting_location_type \in {None, "INDOOR", "OUTDOOR"}

\* a meeting nobody has joined yet: current_participants 0 is lost from the
\* snake_case record (0 or None) and kept from the camelCase one (None or 0)
C34_Witness ==
    /\ Called("_normalize_meeting")
    /\ given.args[1]["current_participants"] = "0"
    /\ given.args[2]["currentParticipants"] = "0"
    /\ returned.value[1].current_participants = None
    /\ returned.value[2].current_participants = "0"
    /\ returned.value[1].meeting_participant_count = "0"
    /\ returned.value[2].meeting_participant_count = "0"

-----------------------------------------------------------------------------
(* The notification service, under SpecNotification *)

\* this step is a call of the method fn
Calling(fn) == utcnow' /= utcnow /\ given'.fn = fn

\* the user the call is made for: the last argument
Caller(call) == call.args[Len(call.args)]

\* the rows that user u does not own are in the table as they were
ForeignRowsKept(u) ==
    \A id \in DOMAIN Table :
        Table[id].user_id /= u =>
            id \in DOMAIN db'.notifications /\ db'.notifications[id] = Table[id]

\* the rows of u among ids, only the unread ones if unread
OwnAmong(ids, u, unread) ==
    {id \in ids \cap DOMAIN Table : /\ Table[id].user_id = u
                                    /\ (unread => ~Table[id].is_read)}

\* C35: a call of get_notification_by_id, mark_as_read, mark_all_as_read,
\* delete_notification or delete_notifications for user u leaves every row of
\* another user in the table and unchanged; it returns no notification of
\* another user, reports a foreign id as not found and counts only rows of u
C35_OtherUsersNotificationsUntouched ==
    [][ /\ \A fn \in {"get_notification_by_id", "mark_as_read", "mark_all_as_read",
                       "delete_notification", "delete_notifications"} :
             Calling(fn) => ForeignRowsKept(Caller(given'))
        /\ Calling("get_notification_by_id") =>
             LET id == given'.args[1]
                 u == given'.args[2]
             IN  /\ \A n \in returned'.value : n.user_id = u /\ n.notification_id = id
                 /\ (returned'.value = {}) <=> (OwnAmong({id}, u, FALSE) = {})
        /\ Calling("delete_notification") =>
             LET id == given'.args[1]
                 u == given'.args[2]
             IN  /\ returned'.value <=> (OwnAmong({id}, u, FALSE) /= {})
                 /\ DOMAIN db'.notifications = DOMAIN Table \ OwnAmong({id}, u, FALSE)
        /\ Calling("delete_notifications") =>
             LET ids == given'.args[1]
                 u == given'.args[2]
             IN  /\ returned'.value = Cardinality(OwnAmong(ids, u, FALSE))
                 /\ DOMAIN db'.notifications = DOMAIN Table \ OwnAmong(ids, u, FALSE)
        /\ Calling("mark_as_read") =>
             returned'.value = Cardinality(OwnAmong(given'.args[1], given'.args[2], TRUE))
        /\ Calling("mark_all_as_read") =>
             returned'.value = Cardinality(OwnAmong(DOMAIN Table, given'.args[1], TRUE))
      ]_vars

\* user 2 has just asked to delete a notification of user 1, after user 1 read it:
\* the answer is False and the row is there, read
C35_Witness ==
    /\ Called("delete_notification")
    /\ given.args[2] = 2
    /\ given.args[1] \in DOMAIN Table
    /\ Table[given.args[1]].user_id = 1
    /\ Table[given.args[1]].is_read
    /\ returned.value = FALSE
    /\ \E id \in DOMAIN Table : Table[id].user_id = 2

-----------------------------------------------------------------------------
(* The trace in the envelope, under Spec *)

\* C37: in every envelope returned, on either path, search_trace.steps has from 1
\* to 5 steps, final_level and final_label are the level and label of the last
\* step, final_level is the number of steps less one, and on the scored path
\* total_candidates is the count of the last step; the fallback path has all 5
C37_EnvelopeTraceIsConsistent ==
    \A r \in Req :
        Returned(r) =>
            LET trace == result[r].search_trace
                n == Len(trace.steps)
            IN  /\ n \in 1..(LastLevel + 1)
                /\ trace.steps = trace_steps[r]
                /\ trace.final_level = Last(trace.steps).level
                /\ trace.final_label = Last(trace.steps).label
                /\ trace.final_level = n - 1
                /\ ScoredPath(r) =>
                       /\ result[r].total_candidates = Last(trace.steps).count
                       /\ ~trace.fallback
                /\ FallbackPath(r) => n = LastLevel + 1 /\ trace.fallback

\* a scored envelope after three attempts: two candidates found at L2, one returned
C37_Witness ==
    /\ ScoredPath(1)
    /\ Len(result[1].search_trace.steps) = 3
    /\ result[1].search_trace.final_level = 2
    /\ result[1].total_candidates = 2
    /\ Len(Recommendations(1)) = 1

-----------------------------------------------------------------------------
(* The fallback scores, under SpecScore *)

\* the scores the collaborative model paired with id, in its order
PairedWith(svd_recs, id) ==
    {i \in 1..Len(svd_recs) : svd_recs[i].mid = id}

\* C38: on the fallback path each record returned carries the collaborative
\* score the model paired with the record's own id, named meeting_id or
\* meetingId, and the default 3.5 only if the model returned no such id; its
\* match score is the one derived from that score, adjusted for the intent
C38_FallbackScoreFollowsOwnId ==
    \A r \in Req :
        FallbackPath(r) =>
            \A i \in 1..Len(Recommendations(r)) :
                LET rec == Recommendations(r)[i]
                    paired == PairedWith(svd_recommendations[r], IdOf(rec))
                    own == IF paired = {} THEN DefaultSvdScore
                           ELSE svd_recommendations[r][CHOOSE k \in paired :
                                                          \A j \in paired : k <= j].score
                IN  /\ rec.svd_score = own
                    /\ rec.match_score =
                           AdjustedScore(FallbackMatchScore(own),
                                         _apply_intent_adjustment(intent[r], Meeting(rec)))

\* the model returned (12, 3.0); the record fetched names its id meetingId: it is
\* given 3.5 and scores 70
C38_Witness ==
    /\ FallbackPath(1)
    /\ intent[1] = "NEUTRAL"
    /\ svd_recommendations[1] = SvdList
    /\ \E i \in 1..Len(Recommendations(1)) :
          /\ Get(Meeting(Recommendations(1)[i]), "meetingId") = "12"
          /\ Recommendations(1)[i].svd_score = DefaultSvdScore
          /\ Recommendations(1)[i].match_score = 70

\* the raw record carries no capacity under either name, or a null one
NoCapacity(m) ==
    Get(m, "max_participants") = None /\ Get(m, "maxParticipants") = None

\* C39: the candidate _normalize_meeting makes of a raw record with no
\* max_participants and no maxParticipants, or with a null one, has
\* max_participants 10
C39_MissingCapacityDefaultsToTen ==
    Called("_normalize_meeting") =>
        \A i \in {1, 2} :
            NoCapacity(given.args[i]) => returned.value[i].max_participants = "10"

\* a record without either key: the candidate's max_participants is None
C39_Witness ==
    /\ Called("_normalize_meeting")
    /\ {"max_participants", "maxParticipants"} \cap DOMAIN given.args[1] = {}
    /\ returned.value[1].max_participants = None

-----------------------------------------------------------------------------
(* The normalizers applied twice, under SpecPure *)

\* C36: _normalize_timeslot and _normalize_location_type return for what they
\* returned that same value again, for null, empty, blank, known and unknown input
C36_NormalizersAreIdempotent ==
    Called("normalize twice") => returned.value[2] = returned.value[1]

\* one blank: the first call returns the empty text, the second call None
C36_Witness ==
    /\ Called("normalize twice")
    /\ given.args = <<"_normalize_timeslot", " ">>
    /\ returned.value = <<"", None>>

-----------------------------------------------------------------------------
(* The notification service, continued *)

\* is_read and read_at of a notification agree
ReadMeansStamped(n) == n.is_read <=> n.read_at /= NULL

\* C40: mark_as_read(ids, u) returns the number of rows of u among ids that were
\* unread, makes exactly these read with read_at the time of the call and changes
\* no other row; the same call made again at once returns 0 and changes no row;
\* and at all times a notification, in the table or in memory, is read exactly
\* when its read_at is set
C40_MarkAsReadIsIdempotentAndCounted ==
    /\ [](\A id \in DOMAIN Table : ReadMeansStamped(Table[id]))
    /\ [](Called("test_model") => returned.value.is_read /\ ReadMeansStamped(returned.value))
    /\ [][Calling("mark_as_read") =>
            LET ids == given'.args[1]
                u == given'.args[2]
                moved == OwnAmong(ids, u, TRUE)
            IN  /\ returned'.value = Cardinality(moved)
                /\ DOMAIN db'.notifications = DOMAIN Table
                /\ \A id \in DOMAIN Table :
                       db'.notifications[id] =
                           IF id \in moved
                           THEN [Table[id] EXCEPT !.is_read = TRUE, !.read_at = utcnow]
                           ELSE Table[id]
                /\ (given.fn = "mark_as_read" /\ given' = given) =>
                       returned'.value = 0 /\ db' = db
          ]_vars

\* mark_as_read([1, 2], 1) has returned 0: notification 1 of user 1 keeps the
\* read_at of an earlier call, notification 2 of user 2 is still unread
C40_Witness ==
    /\ Called("mark_as_read")
    /\ given.args = <<{1, 2}, 1>>
    /\ returned.value = 0
    /\ DOMAIN Table = {1, 2}
    /\ Table[1].user_id = 1 /\ Table[1].is_read /\ Table[1].read_at = utcnow - 2
    /\ Table[2].user_id = 2 /\ ~Table[2].is_read /\ Table[2].read_at = NULL

====
